---- MODULE Spec2Model ----
(***************************************************************************)
(* A model of the allocation-reusing map / zip engines of vec-utils:       *)
(*   - the n-ary engine of src/vec/general_zip.rs (try_zip_with over a     *)
(*     cons list of Vec inputs),                                           *)
(*   - the 2-ary VecExt::try_zip_with and VecExt::try_map of src/vec.rs.   *)
(*   - VecExt::drop_and_reuse, and the combinator API of src/combin.rs     *)
(*     (Data, zip, map, into_vec),                                         *)
(*   - under SpecBox, the box API of src/boxed.rs (BoxExt, UninitBox).     *)
(*                                                                         *)
(* Memory is modelled cell by cell: every input vector owns one buffer     *)
(* (an allocation, identified by its base pointer), a buffer is a sequence *)
(* of cells, and a cell holds the bit pattern last written to it.  A read  *)
(* (ptr.read()) copies the pattern and leaves it in place; dropping a cell *)
(* runs the destructor of whatever pattern the cell holds.                 *)
(***************************************************************************)
EXTENDS Integers, Sequences, FiniteSets, TLC

\* ------------------------------------------------------------- bounds
MaxLen == 3      \* longest input vector

Spares == {0, 1}                     \* spare capacity (capacity - length) of an input

Arities == {1, 2, 3}                 \* sizes of the cons list given to the n-ary engine
Layouts == {<<4, 4>>, <<8, 8>>}      \* element layouts <<size, align>>
AlignLayouts == {<<4, 2>>}           \* a layout that differs from one of Layouts in alignment only
Apis == {"tuple", "zip2", "map", "reuse", "czip", "cmap"}
\* The combinator compositions: Data.zip(Data).try_map(g) ("czip"),
\* Data.try_map(g) ("cmap") and Data.map(f).zip(Data).try_map(g) ("cmzip").
CombinApis == {"czip", "cmap", "cmzip"}

VARIABLES
    api,          \* which entry point this run calls
    vecs,         \* the input vectors at entry: <<[buf, len, cap, layout], ...>> in argument order
    layoutV,      \* layout of the output element type V
    mem,          \* mem[b]: the cells of buffer b (b = 0: the buffer the fallback path collects into)
    input,        \* In::Data: sequence of Input records, in cons order
    out,          \* Output segment of the n-ary engine
    init_len,     \* ZipWithIter.init_len / MapIter.init_len
    min_len,      \* ZipWithIter.min_len
    should_free,  \* ZipWithIter.should_free (n-ary engine)
    pc,           \* control point
    inflight,     \* the row read from the inputs and not yet handed to the transform
    calls,        \* history: <<row, outcome>> of every invocation of the transform, in order
    todo,         \* the pending cleanup steps (destructors, defer guards), first to run first
    panicking,    \* the thread is unwinding
    dtorPanicked, \* history: an element destructor has panicked
    dropLog,      \* history: the cell patterns whose destructor the library ran, in order
    freed,        \* freed[b]: how many times buffer b was deallocated
    ret,          \* the Vec built for the caller (<<>> when none): <<[buf, len, cap]>>
    err,          \* the error the transform returned (<<>> when none)
    result,       \* what the caller receives
    ub,           \* undefined behaviour observed so far (a set of kinds)
    ubox,         \* the live UninitBox (<<>> when none): <<[ptr, layout]>>
    tbox,         \* the live Box<T> (<<>> when none): <<[ptr, layout]>>
    held,         \* the values the caller holds outside any box
    heap,         \* the layout the box's heap block was allocated with (<<>>: no live block)
    ops           \* history: the calls of the box API made so far, with their arguments

vars == <<api, vecs, layoutV, mem, input, out, init_len, min_len, should_free, pc,
          inflight, calls, todo, panicking, dtorPanicked, dropLog, freed, ret, err,
          result, ub, ubox, tbox, held, heap, ops>>

\* the state of the box API, which the vector methods never touch, and the state of
\* the vector engines, which the box API never touches
boxVars == <<ubox, tbox, held, heap, ops>>
vecVars == <<vecs, input, out, init_len, min_len, should_free, inflight, todo, ret, err>>

\* ------------------------------------------------------------- values
Uninit == <<"uninit">>
Elem(b, j) == <<"in", b, j>>          \* the j-th element (1-based) of input buffer b at entry
OutVal(row) == <<"out", row>>         \* the value the transform returns for a row
ErrVal(row) == <<"err", row>>         \* the error the transform returns for a row

Min(a, b) == IF a <= b THEN a ELSE b

\* *ptr for ptr = start(b) + p; a read outside the buffer yields garbage.
ReadCell(b, p) == IF p + 1 \in DOMAIN mem[b] THEN mem[b][p + 1] ELSE Uninit

\* ------------------------------------------------------------- Input / Output
InputFrom(vec) ==
    [start |-> vec.buf, ptr |-> 0, len |-> vec.len, cap |-> vec.cap,
     drop_alloc |-> TRUE, layout |-> vec.layout]

OutputNew(start, cap) == [start |-> start, ptr |-> 0, cap |-> cap]

\* Dropping Vec::from_raw_parts(b, len, cap): the elements, then the buffer.
\* mutant: the buffer is not deallocated
VecDropTasksNoFree(b, len, cap) == << <<"drop_slice", b, 0, len>> >>

VecDropTasks(b, len, cap) == << <<"drop_slice", b, 0, len>>, <<"free", b, cap>> >>

\* ------------------------------------------------------------- TupleElem for Vec<A>
VecCheckPick(layout, V) == layout = V

\* mutant: an empty input is never picked
VecTryPickNonEmpty(data, V) ==
    IF data.layout = V /\ data.len > 0
    THEN << OutputNew(data.start, data.cap) >> ELSE << >>

VecTryPick(data, V) ==
    IF data.layout = V THEN << OutputNew(data.start, data.cap) >> ELSE << >>

\* mutant: the allocation is not surrendered
VecDoPickKeeps(data) == data

VecDoPick(data) == [data EXCEPT !.drop_alloc = FALSE]

\* mutant: next leaves the cursor where it is
VecNextDataStuck(data) == data

\* mutant: next also shrinks the length
VecNextDataShrinks(data) == [data EXCEPT !.ptr = @ + 1, !.len = @ - 1]

VecNextData(data) == [data EXCEPT !.ptr = @ + 1]
\* mutant: next reads the start of the segment
VecNextItemFirst(data) == ReadCell(data.start, 0)

VecNextItem(data) == ReadCell(data.start, data.ptr)

\* mutant: the tail is taken one past the cursor (the MapIter convention)
VecDropRestSkipsOne(data, len) ==
    << <<"drop_slice", data.start, data.ptr + 1, data.len - len - 1>> >>
    \o (IF data.drop_alloc THEN << <<"free", data.start, data.cap>> >> ELSE << >>)

\* mutant: the buffer is freed whatever drop_alloc says
VecDropRestAlwaysFrees(data, len) ==
    << <<"drop_slice", data.start, data.ptr, data.len - len>>,
       <<"free", data.start, data.cap>> >>

\* mutant: the tail is taken from the start of the segment
VecDropRestFromStart(data, len) ==
    << <<"drop_slice", data.start, 0, data.len - len>> >>
    \o (IF data.drop_alloc THEN << <<"free", data.start, data.cap>> >> ELSE << >>)

VecDropRest(data, len) ==
    << <<"drop_slice", data.start, data.ptr, data.len - len>> >>
    \o (IF data.drop_alloc THEN << <<"free", data.start, data.cap>> >> ELSE << >>)

\* ------------------------------------------------------------- Tuple for (A,) and (A, T)
\* A cons list is a sequence; position i stands for the list (A_i, (A_i+1, ...)).
\* mutant: only the head's length is taken
TupleMinLenHead(vs, i) == vs[i].len

RECURSIVE TupleMinLen(_, _)
TupleMinLen(vs, i) ==
    IF i = Len(vs) THEN vs[i].len ELSE Min(vs[i].len, TupleMinLen(vs, i + 1))

\* mutant: only the head of the list is asked
TupleCheckPickHeadOnly(vs, i, V) == VecCheckPick(vs[i].layout, V)

RECURSIVE TupleCheckPick(_, _, _)
TupleCheckPick(vs, i, V) ==
    IF i = Len(vs) THEN VecCheckPick(vs[i].layout, V)
    ELSE VecCheckPick(vs[i].layout, V) \/ TupleCheckPick(vs, i + 1, V)

\* Option<OutputData>: << >> or <<[output, ptr]>>, ptr the position whose do_pick is recorded.
RECURSIVE TuplePickImpl(_, _, _)
\* mutant: the head wins whenever its layout matches, whatever the capacities
RECURSIVE TuplePickImplHeadWins(_, _, _)
TuplePickImplHeadWins(data, i, V) ==
    LET a == VecTryPick(data[i], V)
    IN  IF a # << >> THEN << [output |-> a[1], ptr |-> i] >>
        ELSE IF i = Len(data) THEN << >>
        ELSE TuplePickImplHeadWins(data, i + 1, V)

\* mutant: on equal capacities the rest of the list wins
RECURSIVE TuplePickImplTieRest(_, _, _)
TuplePickImplTieRest(data, i, V) ==
    LET a == VecTryPick(data[i], V)
        mine == << [output |-> a[1], ptr |-> i] >>
    IN  IF i = Len(data)
        THEN IF a = << >> THEN << >> ELSE mine
        ELSE LET rest_pick == TuplePickImplTieRest(data, i + 1, V)
             IN  IF a = << >> THEN rest_pick
                 ELSE IF rest_pick # << >> /\ a[1].cap <= rest_pick[1].output.cap
                      THEN rest_pick
                      ELSE mine

TuplePickImpl(data, i, V) ==
    LET a == VecTryPick(data[i], V)
        mine == << [output |-> a[1], ptr |-> i] >>
    IN  IF i = Len(data)
        THEN IF a = << >> THEN << >> ELSE mine
        ELSE LET rest_pick == TuplePickImpl(data, i + 1, V)
             IN  IF a = << >> THEN rest_pick
                 ELSE IF rest_pick # << >> /\ a[1].cap < rest_pick[1].output.cap
                      THEN rest_pick
                      ELSE mine

\* pick: the output (an Option) and the data after do_pick on the recorded position.
TuplePickOutput(data, V) ==
    LET p == TuplePickImpl(data, 1, V) IN IF p = << >> THEN << >> ELSE << p[1].output >>

\* mutant: every segment of the output's layout gives up its allocation
TuplePickDataAll(data, V) ==
    [i \in 1..Len(data) |-> IF VecTryPick(data[i], V) # << >> THEN VecDoPick(data[i])
                                                            ELSE data[i]]

TuplePickData(data, V) ==
    LET p == TuplePickImpl(data, 1, V)
    IN  IF p = << >> THEN data ELSE [data EXCEPT ![p[1].ptr] = VecDoPick(@)]

TupleNextItem(data) == [i \in 1..Len(data) |-> VecNextItem(data[i])]
TupleNextData(data) == [i \in 1..Len(data) |-> VecNextData(data[i])]

\* mutant: the rest of the list is not reached
TupleDropRestHeadOnly(data, i, len) == VecDropRest(data[i], len)

RECURSIVE TupleDropRest(_, _, _)
TupleDropRest(data, i, len) ==
    VecDropRest(data[i], len)
    \o (IF i = Len(data) THEN << >> ELSE TupleDropRest(data, i + 1, len))

\* ------------------------------------------------------------- initial states
\* The element types a run is instantiated with: the n-ary engine with Layouts, the
\* one- and two-input methods also with a type that differs in alignment only.
LayoutsOf(ap) == IF ap = "tuple" THEN Layouts ELSE Layouts \cup AlignLayouts

VecShapes(ap) ==
    { [len |-> l, cap |-> l + s, layout |-> ly] :
        l \in 0..MaxLen, s \in Spares, ly \in LayoutsOf(ap) }

ArityOf(ap) ==
    IF ap = "tuple" THEN Arities ELSE IF ap \in {"zip2", "czip", "cmzip"} THEN {2} ELSE {1}

InitMem(vs) ==
    [b \in 0..Len(vs) |->
        IF b = 0 THEN << >>
        ELSE [k \in 1..vs[b].cap |-> IF k <= vs[b].len THEN Elem(b, k) ELSE Uninit]]

InitFor(apis) ==
    /\ api \in apis
    /\ layoutV \in LayoutsOf(api)
    /\ \E n \in ArityOf(api) : \E sh \in [1..n -> VecShapes(api)] :
          vecs = [b \in 1..n |->
                    [buf |-> b, len |-> sh[b].len, cap |-> sh[b].cap, layout |-> sh[b].layout]]
    /\ mem = InitMem(vecs)
    /\ input = << >>
    /\ out = OutputNew(0, 0)
    /\ init_len = 0
    /\ min_len = 0
    /\ should_free = FALSE
    /\ pc = "entry"
    /\ inflight = << >>
    /\ calls = << >>
    /\ todo = << >>
    /\ panicking = FALSE
    /\ dtorPanicked = FALSE
    /\ dropLog = << >>
    /\ freed = [b \in 0..Len(vecs) |-> 0]
    /\ ret = << >>
    /\ err = << >>
    /\ result = <<"none">>
    /\ ub = {}
    /\ ubox = << >>
    /\ tbox = << >>
    /\ held = {}
    /\ heap = << >>
    /\ ops = << >>

Init == InitFor(Apis)

\* ------------------------------------------------------------- the n-ary engine
IntoData(vs) == [i \in 1..Len(vs) |-> InputFrom(vs[i])]

\* try_zip_with: the reuse decision, into_data, pick, and the engine's construction.
TupleTryZipWith ==
    /\ pc = "entry" /\ api = "tuple"
    /\ IF TupleCheckPick(vecs, 1, layoutV)
       THEN LET len == TupleMinLen(vecs, 1)
                data == IntoData(vecs)
                o == TuplePickOutput(data, layoutV)
            IN  /\ input' = TuplePickData(data, layoutV)
                /\ IF o = << >>
                   THEN /\ ub' = ub \cup {"unreachable"}
                        /\ pc' = "done"
                        /\ UNCHANGED <<out, init_len, min_len, should_free>>
                   ELSE /\ out' = o[1]
                        /\ init_len' = len
                        /\ min_len' = len
                        /\ should_free' = TRUE
                        /\ pc' = "t_loop"
                        /\ ub' = ub
       ELSE /\ input' = IntoData(vecs)
            /\ pc' = "fb_loop"
            /\ UNCHANGED <<out, init_len, min_len, should_free, ub>>
    /\ UNCHANGED <<boxVars, api, vecs, layoutV, mem, inflight, calls, todo, panicking,
                   dtorPanicked, dropLog, freed, ret, err, result>>

\* The loop head: checked_sub, then In::next reads one element of every input.
\* usize::checked_sub, an Option: << >> or <<n - k>>
\* mutant: the row just started is counted twice
CheckedSubOneMore(n, k) == IF n >= k THEN << n - k - 1 >> ELSE << >>

CheckedSub(n, k) == IF n >= k THEN << n - k >> ELSE << >>

TupleNext ==
    /\ pc = "t_loop" /\ CheckedSub(min_len, 1) # << >>
    /\ min_len' = CheckedSub(min_len, 1)[1]
    /\ inflight' = TupleNextItem(input)
    /\ input' = TupleNextData(input)
    /\ pc' = "t_call"
    /\ UNCHANGED <<boxVars, api, vecs, layoutV, mem, out, init_len, should_free, calls, todo,
                   panicking, dtorPanicked, dropLog, freed, ret, err, result, ub>>

\* out.ptr.write(v); out.ptr = out.ptr.add(1)
\* mutant: the cursor is advanced before the write
OutputWriteAfterAdvance(o, v) ==
    IF o.ptr + 2 \in DOMAIN mem[o.start]
    THEN [mem EXCEPT ![o.start][o.ptr + 2] = v]
    ELSE mem

OutputWrite(o, v) ==
    IF o.ptr + 1 \in DOMAIN mem[o.start]
    THEN [mem EXCEPT ![o.start][o.ptr + 1] = v]
    ELSE mem
\* mutant: the cursor moves by two elements
OutputAdvanceTwo(o) == [o EXCEPT !.ptr = @ + 2]

OutputAdvance(o) == [o EXCEPT !.ptr = @ + 1]

\* f(input)?: the transform returns a value, returns an error, or panics.
TupleCallOk ==
    /\ pc = "t_call"
    /\ calls' = Append(calls, << inflight, "ok" >>)
    /\ mem' = OutputWrite(out, OutVal(inflight))
    /\ ub' = IF out.ptr + 1 \in DOMAIN mem[out.start] THEN ub ELSE ub \cup {"oob_write"}
    /\ out' = OutputAdvance(out)
    /\ inflight' = << >>
    /\ pc' = "t_loop"
    /\ UNCHANGED <<boxVars, api, vecs, layoutV, input, init_len, min_len, should_free, todo,
                   panicking, dtorPanicked, dropLog, freed, ret, err, result>>

TupleCallErr ==
    /\ pc = "t_call"
    /\ calls' = Append(calls, << inflight, "err" >>)
    /\ err' = << ErrVal(inflight) >>
    /\ inflight' = << >>
    /\ pc' = "t_drop"
    /\ UNCHANGED <<boxVars, api, vecs, layoutV, mem, input, out, init_len, min_len, should_free,
                   todo, panicking, dtorPanicked, dropLog, freed, ret, result, ub>>

TupleCallPanic ==
    /\ pc = "t_call"
    /\ calls' = Append(calls, << inflight, "panic" >>)
    /\ panicking' = TRUE
    /\ inflight' = << >>
    /\ pc' = "t_drop"
    /\ UNCHANGED <<boxVars, api, vecs, layoutV, mem, input, out, init_len, min_len, should_free,
                   todo, dtorPanicked, dropLog, freed, ret, err, result, ub>>

\* The clean exit: should_free = false, and the Vec is built as the return value.
TupleExit ==
    /\ pc = "t_loop" /\ CheckedSub(min_len, 1) = << >>
    /\ should_free' = FALSE
    /\ ret' = << [buf |-> out.start, len |-> init_len, cap |-> out.cap, temp |-> TRUE] >>
    /\ pc' = "t_drop"
    /\ UNCHANGED <<boxVars, api, vecs, layoutV, mem, input, out, init_len, min_len, inflight,
                   calls, todo, panicking, dtorPanicked, dropLog, freed, err, result, ub>>

\* impl Drop for ZipWithIter: In::drop_rest(input, len), then the deferred output Vec.
\* mutant: the output count is not offset by the row in flight
ZipWithIterDropNoOffset(data, o, free, ilen, mlen) ==
    LET len == ilen - mlen
    IN  TupleDropRest(data, 1, len)
        \o (IF free THEN VecDropTasks(o.start, len, o.cap) ELSE << >>)

\* mutant: the output Vec is released before the inputs' tails
ZipWithIterDropOutputFirst(data, o, free, ilen, mlen) ==
    LET len == ilen - mlen
    IN  (IF free THEN VecDropTasks(o.start, len - 1, o.cap) ELSE << >>)
        \o TupleDropRest(data, 1, len)

\* mutant: the rows done are taken to be the rows remaining
ZipWithIterDropCountsRemaining(data, o, free, ilen, mlen) ==
    LET len == ilen - mlen
    IN  TupleDropRest(data, 1, len)
        \o (IF free THEN VecDropTasks(o.start, mlen, o.cap) ELSE << >>)

ZipWithIterDrop(data, o, free, ilen, mlen) ==
    LET len == ilen - mlen
    IN  TupleDropRest(data, 1, len)
        \o (IF free THEN VecDropTasks(o.start, len - 1, o.cap) ELSE << >>)

TupleDrop ==
    /\ pc = "t_drop"
    /\ todo' = ZipWithIterDrop(input, out, should_free, init_len, min_len)
    /\ pc' = "cleanup"
    /\ UNCHANGED <<boxVars, api, vecs, layoutV, mem, input, out, init_len, min_len, should_free,
                   inflight, calls, panicking, dtorPanicked, dropLog, freed, ret, err,
                   result, ub>>

\* ------------------------------------------------------------- the fallback path
\* input.into_iter().map(f).map(R::into_result).collect(): the inputs become
\* vec::IntoIter, zipped in cons order; the results are collected into a new buffer
\* (buffer 0).  input[i].ptr is the iterator's position.
\* mutant: the elements not yet yielded are not dropped
IntoIterDropLeaksTail(it) == << <<"free", it.start, it.cap>> >>

IntoIterDrop(it) ==
    << <<"drop_slice", it.start, it.ptr, it.len - it.ptr>>, <<"free", it.start, it.cap>> >>

RECURSIVE IntoItersDrop(_, _)
IntoItersDrop(its, i) ==
    IF i > Len(its) THEN << >> ELSE IntoIterDrop(its[i]) \o IntoItersDrop(its, i + 1)

\* The first exhausted iterator of the zip (0 when none is).
RECURSIVE FirstExhausted(_, _)
FirstExhausted(its, i) ==
    IF i > Len(its) THEN 0
    ELSE IF its[i].ptr >= its[i].len THEN i ELSE FirstExhausted(its, i + 1)

\* Zip::next with a later iterator exhausted: the items already pulled are dropped,
\* innermost first.
RECURSIVE PulledDrops(_, _)
PulledDrops(its, k) ==
    IF k < 1 THEN << >>
    ELSE << <<"drop_slice", its[k].start, its[k].ptr, 1>> >> \o PulledDrops(its, k - 1)

CollectedVec == [buf |-> 0, len |-> Len(mem[0]), cap |-> Len(mem[0]), temp |-> FALSE]

FallbackNext ==
    /\ pc = "fb_loop"
    /\ LET k == FirstExhausted(input, 1)
       IN  IF k = 0
           THEN /\ inflight' = TupleNextItem(input)
                /\ input' = TupleNextData(input)
                /\ pc' = "fb_call"
                /\ UNCHANGED <<todo, ret>>
           ELSE LET pulled == [i \in 1..Len(input) |->
                                 IF i < k THEN VecNextData(input[i]) ELSE input[i]]
                IN  /\ input' = pulled
                    /\ todo' = PulledDrops(input, k - 1) \o IntoItersDrop(pulled, 1)
                    /\ ret' = << CollectedVec >>
                    /\ pc' = "cleanup"
                    /\ UNCHANGED inflight
    /\ UNCHANGED <<boxVars, api, vecs, layoutV, mem, out, init_len, min_len, should_free, calls,
                   panicking, dtorPanicked, dropLog, freed, err, result, ub>>

\* The row as the user's transform sees it: the 2-ary method hands f(x, y) with x from
\* self and y from other, also when the two inputs were swapped.
\* mutant: the row is handed over in the engine's (left, right) order
UserRowInternal(row) == row

UserRow(row) ==
    IF api = "zip2" /\ input[1].start # 1 THEN << row[2], row[1] >> ELSE row

FallbackCallOk ==
    /\ pc = "fb_call"
    /\ calls' = Append(calls, << UserRow(inflight), "ok" >>)
    /\ mem' = [mem EXCEPT ![0] = Append(@, OutVal(UserRow(inflight)))]
    /\ inflight' = << >>
    /\ pc' = "fb_loop"
    /\ UNCHANGED <<boxVars, api, vecs, layoutV, input, out, init_len, min_len, should_free, todo,
                   panicking, dtorPanicked, dropLog, freed, ret, err, result, ub>>

FallbackCallErr ==
    /\ pc = "fb_call"
    /\ calls' = Append(calls, << UserRow(inflight), "err" >>)
    /\ err' = << ErrVal(UserRow(inflight)) >>
    /\ inflight' = << >>
    /\ todo' = VecDropTasks(0, Len(mem[0]), Len(mem[0])) \o IntoItersDrop(input, 1)
    /\ pc' = "cleanup"
    /\ UNCHANGED <<boxVars, api, vecs, layoutV, mem, input, out, init_len, min_len, should_free,
                   panicking, dtorPanicked, dropLog, freed, ret, result, ub>>

FallbackCallPanic ==
    /\ pc = "fb_call"
    /\ calls' = Append(calls, << UserRow(inflight), "panic" >>)
    /\ panicking' = TRUE
    /\ inflight' = << >>
    /\ todo' = VecDropTasks(0, Len(mem[0]), Len(mem[0])) \o IntoItersDrop(input, 1)
    /\ pc' = "cleanup"
    /\ UNCHANGED <<boxVars, api, vecs, layoutV, mem, input, out, init_len, min_len, should_free,
                   dtorPanicked, dropLog, freed, ret, err, result, ub>>

\* ------------------------------------------------------------- VecExt::try_zip_with (2-ary)
\* The match on (T ~ V, U ~ V, self.capacity() >= other.capacity()): "left" (self is
\* the reused buffer), "right" (other is), or "none" (the fallback arm).
\* mutant: on equal capacities other is the reused buffer
Zip2ArmTieOther(self, other, V) ==
    LET t == self.layout = V
        u == other.layout = V
        c == self.cap > other.cap
    IN  IF (t /\ u /\ c) \/ (t /\ ~u) THEN "left"
        ELSE IF (t /\ u /\ ~c) \/ (~t /\ u) THEN "right"
        ELSE "none"

\* mutant: only self's buffer is ever reused
Zip2ArmSelfOnly(self, other, V) == IF self.layout = V THEN "left" ELSE "none"

Zip2Arm(self, other, V) ==
    LET t == self.layout = V
        u == other.layout = V
        c == self.cap >= other.cap
    IN  IF (t /\ u /\ c) \/ (t /\ ~u) THEN "left"
        ELSE IF (t /\ u /\ ~c) \/ (~t /\ u) THEN "right"
        ELSE "none"

Zip2TryZipWith ==
    /\ pc = "entry" /\ api = "zip2"
    /\ LET len == Min(vecs[1].len, vecs[2].len)
           arm == Zip2Arm(vecs[1], vecs[2], layoutV)
       IN  IF arm = "none"
           THEN /\ input' = IntoData(vecs)
                /\ pc' = "fb_loop"
                /\ UNCHANGED <<init_len, min_len>>
           ELSE /\ input' = IF arm = "left"
                            THEN << InputFrom(vecs[1]), InputFrom(vecs[2]) >>
                            ELSE << InputFrom(vecs[2]), InputFrom(vecs[1]) >>
                /\ init_len' = len
                /\ min_len' = len
                /\ pc' = "z_loop"
    /\ UNCHANGED <<boxVars, api, vecs, layoutV, mem, out, should_free, inflight, calls, todo,
                   panicking, dtorPanicked, dropLog, freed, ret, err, result, ub>>

\* The loop head: both cursors advance, then the two saved pointers are read.
Zip2Next ==
    /\ pc = "z_loop" /\ min_len >= 1
    /\ min_len' = min_len - 1
    /\ inflight' = << ReadCell(input[1].start, input[1].ptr),
                      ReadCell(input[2].start, input[2].ptr) >>
    /\ input' = << VecNextData(input[1]), VecNextData(input[2]) >>
    /\ pc' = "z_call"
    /\ UNCHANGED <<boxVars, api, vecs, layoutV, mem, out, init_len, should_free, calls, todo,
                   panicking, dtorPanicked, dropLog, freed, ret, err, result, ub>>

\* out.write(value), out being the left cursor saved before it advanced.
Zip2Write(left, v) ==
    IF left.ptr \in DOMAIN mem[left.start]
    THEN [mem EXCEPT ![left.start][left.ptr] = v]
    ELSE mem

Zip2CallOk ==
    /\ pc = "z_call"
    /\ calls' = Append(calls, << UserRow(inflight), "ok" >>)
    /\ mem' = Zip2Write(input[1], OutVal(UserRow(inflight)))
    /\ inflight' = << >>
    /\ pc' = "z_loop"
    /\ UNCHANGED <<boxVars, api, vecs, layoutV, input, out, init_len, min_len, should_free, todo,
                   panicking, dtorPanicked, dropLog, freed, ret, err, result, ub>>

Zip2CallErr ==
    /\ pc = "z_call"
    /\ calls' = Append(calls, << UserRow(inflight), "err" >>)
    /\ err' = << ErrVal(UserRow(inflight)) >>
    /\ inflight' = << >>
    /\ pc' = "z_drop"
    /\ UNCHANGED <<boxVars, api, vecs, layoutV, mem, input, out, init_len, min_len, should_free,
                   todo, panicking, dtorPanicked, dropLog, freed, ret, result, ub>>

Zip2CallPanic ==
    /\ pc = "z_call"
    /\ calls' = Append(calls, << UserRow(inflight), "panic" >>)
    /\ panicking' = TRUE
    /\ inflight' = << >>
    /\ pc' = "z_drop"
    /\ UNCHANGED <<boxVars, api, vecs, layoutV, mem, input, out, init_len, min_len, should_free,
                   todo, dtorPanicked, dropLog, freed, ret, err, result, ub>>

\* The clean exit: self goes into ManuallyDrop, the output Vec is a local, and the
\* excess elements are dropped under two defer guards.
\* mutant: the excess of the right input is not dropped
Zip2ExitTasksLeftOnly(left, right, ilen) ==
    << <<"drop_slice", left.start, left.ptr, left.len - ilen>>,
       <<"free", right.start, right.cap>> >>

\* mutant: the right buffer's cleanup is not registered
Zip2ExitTasksKeepsRight(left, right, ilen) ==
    << <<"drop_slice", left.start, left.ptr, left.len - ilen>>,
       <<"drop_slice", right.start, right.ptr, right.len - ilen>> >>

Zip2ExitTasks(left, right, ilen) ==
    << <<"drop_slice", left.start, left.ptr, left.len - ilen>>,
       <<"drop_slice", right.start, right.ptr, right.len - ilen>>,
       <<"free", right.start, right.cap>> >>

Zip2Exit ==
    /\ pc = "z_loop" /\ min_len = 0
    /\ ret' = << [buf |-> input[1].start, len |-> init_len, cap |-> input[1].cap,
                  temp |-> FALSE] >>
    /\ todo' = Zip2ExitTasks(input[1], input[2], init_len)
    /\ pc' = "cleanup"
    /\ UNCHANGED <<boxVars, api, vecs, layoutV, mem, input, out, init_len, min_len, should_free,
                   inflight, calls, panicking, dtorPanicked, dropLog, freed, err, result,
                   ub>>

\* impl Drop for ZipWithIter<T, U, V>: the written outputs, the two tails (deferred),
\* and last the two buffers.
\* mutant: the output count is not offset by the row in flight
Zip2DropTasksNoOffset(left, right, ilen, mlen) ==
    LET len == ilen - mlen
    IN  << <<"drop_slice", left.start, 0, len>>,
           <<"drop_slice", left.start, left.ptr, left.len - len>>,
           <<"drop_slice", right.start, right.ptr, right.len - len>>,
           <<"free", left.start, left.cap>>,
           <<"free", right.start, right.cap>> >>

Zip2DropTasks(left, right, ilen, mlen) ==
    LET len == ilen - mlen
    IN  << <<"drop_slice", left.start, 0, len - 1>>,
           <<"drop_slice", left.start, left.ptr, left.len - len>>,
           <<"drop_slice", right.start, right.ptr, right.len - len>>,
           <<"free", left.start, left.cap>>,
           <<"free", right.start, right.cap>> >>

Zip2Drop ==
    /\ pc = "z_drop"
    /\ todo' = Zip2DropTasks(input[1], input[2], init_len, min_len)
    /\ pc' = "cleanup"
    /\ UNCHANGED <<boxVars, api, vecs, layoutV, mem, input, out, init_len, min_len, should_free,
                   inflight, calls, panicking, dtorPanicked, dropLog, freed, ret, err,
                   result, ub>>

\* ------------------------------------------------------------- VecExt::try_map
\* Layout::new::<T>() == Layout::new::<U>(): Layout's equality compares size and align.
\* mutant: only the sizes are compared
MapReusesSizeOnly(T, U) == T[1] = U[1]

MapReuses(T, U) == T[1] = U[1] /\ T[2] = U[2]

MapTryMap ==
    /\ pc = "entry" /\ api = "map"
    /\ input' = IntoData(vecs)
    /\ init_len' = 0
    /\ pc' = IF MapReuses(vecs[1].layout, layoutV) THEN "m_loop" ELSE "fb_loop"
    /\ UNCHANGED <<boxVars, api, vecs, layoutV, mem, out, min_len, should_free, inflight, calls,
                   todo, panicking, dtorPanicked, dropLog, freed, ret, err, result, ub>>

\* while init_len < data.len: data.ptr.read()
MapNext ==
    /\ pc = "m_loop" /\ init_len < input[1].len
    /\ inflight' = << ReadCell(input[1].start, input[1].ptr) >>
    /\ pc' = "m_call"
    /\ UNCHANGED <<boxVars, api, vecs, layoutV, mem, input, out, init_len, min_len, should_free,
                   calls, todo, panicking, dtorPanicked, dropLog, freed, ret, err, result,
                   ub>>

\* (data.ptr as *mut U).write(value)
MapWrite(data, v) ==
    IF data.ptr + 1 \in DOMAIN mem[data.start]
    THEN [mem EXCEPT ![data.start][data.ptr + 1] = v]
    ELSE mem

MapCallOk ==
    /\ pc = "m_call"
    /\ calls' = Append(calls, << inflight, "ok" >>)
    /\ mem' = MapWrite(input[1], OutVal(inflight))
    /\ input' = << VecNextData(input[1]) >>
    /\ init_len' = init_len + 1
    /\ inflight' = << >>
    /\ pc' = "m_loop"
    /\ UNCHANGED <<boxVars, api, vecs, layoutV, out, min_len, should_free, todo, panicking,
                   dtorPanicked, dropLog, freed, ret, err, result, ub>>

MapCallErr ==
    /\ pc = "m_call"
    /\ calls' = Append(calls, << inflight, "err" >>)
    /\ err' = << ErrVal(inflight) >>
    /\ inflight' = << >>
    /\ pc' = "m_drop"
    /\ UNCHANGED <<boxVars, api, vecs, layoutV, mem, input, out, init_len, min_len, should_free,
                   todo, panicking, dtorPanicked, dropLog, freed, ret, result, ub>>

MapCallPanic ==
    /\ pc = "m_call"
    /\ calls' = Append(calls, << inflight, "panic" >>)
    /\ panicking' = TRUE
    /\ inflight' = << >>
    /\ pc' = "m_drop"
    /\ UNCHANGED <<boxVars, api, vecs, layoutV, mem, input, out, init_len, min_len, should_free,
                   todo, dtorPanicked, dropLog, freed, ret, err, result, ub>>

\* The clean exit: ManuallyDrop::new(self), and the Vec over the same buffer.
MapExit ==
    /\ pc = "m_loop" /\ init_len >= input[1].len
    /\ ret' = << [buf |-> input[1].start, len |-> input[1].len, cap |-> input[1].cap,
                  temp |-> FALSE] >>
    /\ todo' = << >>
    /\ pc' = "cleanup"
    /\ UNCHANGED <<boxVars, api, vecs, layoutV, mem, input, out, init_len, min_len, should_free,
                   inflight, calls, panicking, dtorPanicked, dropLog, freed, err, result,
                   ub>>

\* impl Drop for MapIter: the unread tail past the element just read, then (deferred)
\* the Vec of the init_len written outputs.
\* mutant: the tail starts at the element just read
MapDropTasksNoOffset(data, ilen) ==
    << <<"drop_slice", data.start, data.ptr, data.len - ilen>> >>
    \o VecDropTasks(data.start, ilen, data.cap)

MapDropTasks(data, ilen) ==
    << <<"drop_slice", data.start, data.ptr + 1, data.len - ilen - 1>> >>
    \o VecDropTasks(data.start, ilen, data.cap)

MapDrop ==
    /\ pc = "m_drop"
    /\ todo' = MapDropTasks(input[1], init_len)
    /\ pc' = "cleanup"
    /\ UNCHANGED <<boxVars, api, vecs, layoutV, mem, input, out, init_len, min_len, should_free,
                   inflight, calls, panicking, dtorPanicked, dropLog, freed, ret, err,
                   result, ub>>

\* ------------------------------------------------------------- VecExt::drop_and_reuse
\* self.clear(): Vec::truncate(0) sets the length to 0 and drops the old contents in
\* place.
\* mutant: the length is not reset
VecClearKeepsLen(vec) == vec

VecClear(vec) == [vec EXCEPT !.len = 0]
VecClearTasks(vec) == << <<"drop_slice", vec.buf, 0, vec.len>> >>

DropAndReuseClear ==
    /\ pc = "entry" /\ api = "reuse"
    /\ todo' = VecClearTasks(vecs[1])
    /\ pc' = "r_clear"
    /\ UNCHANGED <<boxVars, api, vecs, layoutV, mem, input, out, init_len, min_len, should_free,
                   inflight, calls, panicking, dtorPanicked, dropLog, freed, ret, err,
                   result, ub>>

\* self.map(|_| unreachable_unchecked()) on the cleared vector: try_map's choice of
\* path; when clear() unwinds instead, self is dropped as an empty Vec.
DropAndReuseMap ==
    /\ pc = "r_clear" /\ todo = << >>
    /\ IF panicking
       THEN /\ todo' = << <<"free", vecs[1].buf, vecs[1].cap>> >>
            /\ pc' = "cleanup"
            /\ UNCHANGED <<input, init_len>>
       ELSE /\ input' = IntoData(<< VecClear(vecs[1]) >>)
            /\ init_len' = 0
            /\ pc' = IF MapReuses(vecs[1].layout, layoutV) THEN "m_loop" ELSE "fb_loop"
            /\ todo' = todo
    /\ UNCHANGED <<boxVars, api, vecs, layoutV, mem, out, min_len, should_free, inflight, calls,
                   panicking, dtorPanicked, dropLog, freed, ret, err, result, ub>>

\* ------------------------------------------------------------- the combinator API
\* Data::from(a).zip(Data::from(b)).map(f).into_vec() ("czip") and
\* Data::from(v).map(f).into_vec() ("cmap") of src/combin.rs and src/combin/data.rs.
\* A Data<T, S> is an Input record; its state S is Split when drop_alloc is FALSE
\* (the allocation belongs to the output) and Input when it is TRUE.
DataFrom(vec) == InputFrom(vec)

\* Option<usize>: << >> or <<cap>>
DataGetCapFor(d, U) == IF d.layout = U THEN << d.cap >> ELSE << >>

DataSplit(d) == [d EXCEPT !.drop_alloc = FALSE]
DataSplitOutput(d) == OutputNew(d.start, d.cap)

\* mutant: only the left length is taken
ZipMinLeft(a, b) == a.len

ZipMin(a, b) == Min(a.len, b.len)

ZipGetCapFor(a, b, U) ==
    LET ca == DataGetCapFor(a, U)
        cb == DataGetCapFor(b, U)
    IN  IF ca # << >> /\ cb # << >> THEN << IF ca[1] >= cb[1] THEN ca[1] ELSE cb[1] >>
        ELSE IF ca # << >> THEN ca
        ELSE cb

\* Zip::split_vec_iter: which side is split ("a": Either::Left, "b": Either::Right)
ZipSplitSide(a, b, U) ==
    LET ca == DataGetCapFor(a, U)
        cb == DataGetCapFor(b, U)
    IN  IF ca # << >> /\ cb # << >> THEN (IF ca[1] >= cb[1] THEN "a" ELSE "b")
        ELSE IF ca # << >> THEN "a"
        ELSE IF cb # << >> THEN "b"
        ELSE "unreachable"

\* Data::next_unchecked / the loop of Data::try_fold: the cursor advances and the
\* length shrinks.
DataNext(d) == [d EXCEPT !.ptr = @ + 1, !.len = @ - 1]

\* Data<T, Output>::write and into_vec
DataWrite(o, v) ==
    IF o.ptr + 1 \in DOMAIN mem[o.start]
    THEN [mem EXCEPT ![o.start][o.ptr + 1] = v]
    ELSE mem
OutputIntoVec(o) == [buf |-> o.start, len |-> o.ptr, cap |-> o.cap, temp |-> FALSE]

\* State::drop for Split (the unread elements) and for Input (the unread elements,
\* then the buffer)
\* mutant: a Split segment frees the buffer as an Input segment does
DataDropTasksAlwaysFree(d) ==
    << <<"drop_slice", d.start, d.ptr, d.len>>, <<"free", d.start, d.cap>> >>

DataDropTasks(d) ==
    << <<"drop_slice", d.start, d.ptr, d.len>> >>
    \o (IF d.drop_alloc THEN << <<"free", d.start, d.cap>> >> ELSE << >>)

RECURSIVE DatasDropTasks(_, _)
DatasDropTasks(ds, i) ==
    IF i > Len(ds) THEN << >> ELSE DataDropTasks(ds[i]) \o DatasDropTasks(ds, i + 1)

\* IntoVecIter::try_into_vec: get_cap_for decides between split_vec_iter (the output
\* lies over an input's buffer) and into_vec_iter with Vec::with_capacity(len).
CombinIsZip == api \in {"czip", "cmzip"}

CombinTryIntoVec ==
    /\ pc = "entry" /\ api \in CombinApis
    /\ LET ds == [i \in 1..Len(vecs) |-> DataFrom(vecs[i])]
           cap == IF CombinIsZip THEN ZipGetCapFor(ds[1], ds[2], layoutV)
                  ELSE DataGetCapFor(ds[1], layoutV)
           len == IF CombinIsZip THEN ZipMin(ds[1], ds[2]) ELSE ds[1].len
           side == IF CombinIsZip THEN ZipSplitSide(ds[1], ds[2], layoutV) ELSE "a"
           k == IF side = "a" THEN 1 ELSE 2
       IN  /\ min_len' = len
           /\ IF cap # << >>
              THEN /\ input' = [ds EXCEPT ![k] = DataSplit(@)]
                   /\ out' = DataSplitOutput(ds[k])
                   /\ mem' = mem
              ELSE /\ input' = ds
                   /\ out' = OutputNew(0, len)
                   /\ mem' = [mem EXCEPT ![0] = [j \in 1..len |-> Uninit]]
    /\ pc' = "c_loop"
    /\ UNCHANGED <<boxVars, api, vecs, layoutV, init_len, should_free, inflight, calls,
                   todo, panicking, dtorPanicked, dropLog, freed, ret, err, result, ub>>

\* Zip::try_fold counts min_len down; Data::try_fold counts its own length down.
CombinMore == IF CombinIsZip THEN min_len >= 1 ELSE input[1].len >= 1

\* One round of the fold up to the first closure call.  Zip::next_unchecked reads a,
\* then b; with Map around a ("cmzip") the mapped function runs on a's element
\* before b is read.
CombinNext ==
    /\ pc = "c_loop" /\ CombinMore
    /\ min_len' = IF CombinIsZip THEN min_len - 1 ELSE min_len
    /\ IF api = "cmzip"
       THEN /\ inflight' = << ReadCell(input[1].start, input[1].ptr) >>
            /\ input' = [input EXCEPT ![1] = DataNext(@)]
            /\ pc' = "c_inner"
       ELSE /\ inflight' = [i \in 1..Len(input) |-> ReadCell(input[i].start, input[i].ptr)]
            /\ input' = [i \in 1..Len(input) |-> DataNext(input[i])]
            /\ pc' = "c_call"
    /\ UNCHANGED <<boxVars, api, vecs, layoutV, mem, out, init_len, should_free, calls,
                   todo, panicking, dtorPanicked, dropLog, freed, ret, err, result, ub>>

\* Map::next_unchecked inside Zip: func(a) returned, then b.next_unchecked()
CombinInnerOk ==
    /\ pc = "c_inner"
    /\ calls' = Append(calls, << inflight, "ok" >>)
    /\ inflight' = << OutVal(inflight), ReadCell(input[2].start, input[2].ptr) >>
    /\ input' = [input EXCEPT ![2] = DataNext(@)]
    /\ pc' = "c_call"
    /\ UNCHANGED <<boxVars, api, vecs, layoutV, mem, out, init_len, min_len, should_free,
                   todo, panicking, dtorPanicked, dropLog, freed, ret, err, result, ub>>

CombinInnerPanic ==
    /\ pc = "c_inner"
    /\ calls' = Append(calls, << inflight, "panic" >>)
    /\ panicking' = TRUE
    /\ inflight' = << >>
    /\ pc' = "c_drop"
    /\ UNCHANGED <<boxVars, api, vecs, layoutV, mem, input, out, init_len, min_len,
                   should_free, todo, dtorPanicked, dropLog, freed, ret, err, result, ub>>

\* g(acc, func(x)): the mapped function, then output.write(x)
CombinCallOk ==
    /\ pc = "c_call"
    /\ calls' = Append(calls, << inflight, "ok" >>)
    /\ mem' = DataWrite(out, OutVal(inflight))
    /\ ub' = IF out.ptr + 1 \in DOMAIN mem[out.start] THEN ub ELSE ub \cup {"oob_write"}
    /\ out' = OutputAdvance(out)
    /\ inflight' = << >>
    /\ pc' = "c_loop"
    /\ UNCHANGED <<boxVars, api, vecs, layoutV, input, init_len, min_len, should_free,
                   todo, panicking, dtorPanicked, dropLog, freed, ret, err, result>>

\* TryMap::try_fold: func(x).into_result().map_err(Either::Right)? leaves the fold;
\* the error reaches the caller of try_into_vec as Either::Right(e).
CombinError(e) == <<"Right", e>>

CombinCallErr ==
    /\ pc = "c_call"
    /\ calls' = Append(calls, << inflight, "err" >>)
    /\ err' = << CombinError(ErrVal(inflight)) >>
    /\ inflight' = << >>
    /\ pc' = "c_drop"
    /\ UNCHANGED <<boxVars, api, vecs, layoutV, mem, input, out, init_len, min_len,
                   should_free, todo, panicking, dtorPanicked, dropLog, freed, ret,
                   result, ub>>

CombinCallPanic ==
    /\ pc = "c_call"
    /\ calls' = Append(calls, << inflight, "panic" >>)
    /\ panicking' = TRUE
    /\ inflight' = << >>
    /\ pc' = "c_drop"
    /\ UNCHANGED <<boxVars, api, vecs, layoutV, mem, input, out, init_len, min_len,
                   should_free, todo, dtorPanicked, dropLog, freed, ret, err, result, ub>>

\* The fold is over: iter goes out of its block (the inputs' destructors), and the
\* output, still a local, becomes the returned Vec.
CombinExit ==
    /\ pc = "c_loop" /\ ~CombinMore
    /\ todo' = DatasDropTasks(input, 1)
    /\ ret' = << OutputIntoVec(out) >>
    /\ pc' = "cleanup"
    /\ UNCHANGED <<boxVars, api, vecs, layoutV, mem, input, out, init_len, min_len,
                   should_free, inflight, calls, panicking, dtorPanicked, dropLog, freed,
                   err, result, ub>>

\* Unwinding out of the fold: iter is dropped, then output (State::drop for Output:
\* the Vec of the values written so far).
CombinDrop ==
    /\ pc = "c_drop"
    /\ todo' = DatasDropTasks(input, 1) \o VecDropTasks(out.start, out.ptr, out.cap)
    /\ pc' = "cleanup"
    /\ UNCHANGED <<boxVars, api, vecs, layoutV, mem, input, out, init_len, min_len,
                   should_free, inflight, calls, panicking, dtorPanicked, dropLog, freed,
                   ret, err, result, ub>>

\* ------------------------------------------------------------- running destructors
\* ptr::drop_in_place of the slice [start(b) + from, +n): every element's destructor
\* runs; after a first panic the rest of the slice is still dropped while unwinding,
\* and a panic while unwinding aborts the process.
SliceInBounds(b, from, n) == n >= 0 /\ from + n <= Len(mem[b])
SliceCells(b, from, n) ==
    IF SliceInBounds(b, from, n) THEN [k \in 1..n |-> mem[b][from + k]] ELSE << >>
SliceUb(b, from, n) ==
    (IF SliceInBounds(b, from, n) THEN {} ELSE {"oob_drop"})
    \cup (IF \E k \in 1..Len(SliceCells(b, from, n)) : SliceCells(b, from, n)[k] = Uninit
          THEN {"drop_uninit"} ELSE {})
    \cup (IF n > 0 /\ freed[b] > 0 THEN {"use_after_free"} ELSE {})

\* defer!: the cleanups registered by enclosing scopes still run when a destructor
\* panics.
\* mutant: a panic leaves the remaining cleanups undone
DeferScopeLost(tasks) == << >>

DeferScope(tasks) == Tail(tasks)

RunDropSlice ==
    /\ pc \in {"cleanup", "r_clear"} /\ todo # << >> /\ Head(todo)[1] = "drop_slice"
    /\ LET t == Head(todo)
           cells == SliceCells(t[2], t[3], t[4])
       IN  /\ ub' = ub \cup SliceUb(t[2], t[3], t[4])
           /\ \/ /\ dropLog' = dropLog \o cells
                 /\ todo' = Tail(todo)
                 /\ UNCHANGED <<panicking, dtorPanicked, pc>>
              \/ /\ Len(cells) >= 1 /\ ~panicking
                 /\ dropLog' = dropLog \o cells
                 /\ todo' = DeferScope(todo)
                 /\ panicking' = TRUE
                 /\ dtorPanicked' = TRUE
                 /\ pc' = pc
              \/ \E j \in 1..Len(cells) :
                 /\ panicking \/ j >= 2
                 /\ dropLog' = dropLog \o SubSeq(cells, 1, j)
                 /\ todo' = << >>
                 /\ panicking' = TRUE
                 /\ dtorPanicked' = TRUE
                 /\ pc' = "abort"
    /\ UNCHANGED <<boxVars, api, vecs, layoutV, mem, input, out, init_len, min_len, should_free,
                   inflight, calls, freed, ret, err, result>>

\* Dropping a Vec of length 0 over the buffer: deallocates it, unless its capacity is
\* 0 (such a Vec owns no allocation).
RunFree ==
    /\ pc = "cleanup" /\ todo # << >> /\ Head(todo)[1] = "free"
    /\ LET t == Head(todo)
       IN  freed' = IF t[3] = 0 THEN freed ELSE [freed EXCEPT ![t[2]] = @ + 1]
    /\ todo' = Tail(todo)
    /\ UNCHANGED <<boxVars, api, vecs, layoutV, mem, input, out, init_len, min_len, should_free,
                   pc, inflight, calls, panicking, dtorPanicked, dropLog, ret, err,
                   result, ub>>

\* Unwinding past the frame that holds the Vec built for the caller.  A local is
\* dropped; a return-value temporary is dropped or, with compilers that do not drop
\* the return place when a local's destructor panics, forgotten.
UnwindRetDrop ==
    /\ pc = "cleanup" /\ todo = << >> /\ panicking /\ ret # << >>
    /\ todo' = VecDropTasks(ret[1].buf, ret[1].len, ret[1].cap)
    /\ ret' = << >>
    /\ UNCHANGED <<boxVars, api, vecs, layoutV, mem, input, out, init_len, min_len, should_free,
                   pc, inflight, calls, panicking, dtorPanicked, dropLog, freed, err,
                   result, ub>>

UnwindRetForget ==
    /\ pc = "cleanup" /\ todo = << >> /\ panicking /\ ret # << >> /\ ret[1].temp
    /\ ret' = << >>
    /\ UNCHANGED <<boxVars, api, vecs, layoutV, mem, input, out, init_len, min_len, should_free,
                   pc, todo, inflight, calls, panicking, dtorPanicked, dropLog, freed,
                   err, result, ub>>

\* r#try! / the ? operator on a failed result: return Try::from_error(From::from(err)).
\* mutant: the error's payload is lost in the conversion
TryFromErrorDefault(e) == <<"Err", ErrVal(<< >>)>>

TryFromError(e) == <<"Err", e>>

\* The call returns, or the panic leaves it.
Finish ==
    /\ pc = "cleanup" /\ todo = << >> /\ (~panicking \/ ret = << >>)
    /\ result' = IF panicking THEN <<"panic">>
                 ELSE IF err # << >> THEN TryFromError(err[1])
                 ELSE <<"Ok", ret[1]>>
    /\ pc' = "done"
    /\ UNCHANGED <<boxVars, api, vecs, layoutV, mem, input, out, init_len, min_len, should_free,
                   inflight, calls, todo, panicking, dtorPanicked, dropLog, freed, ret,
                   err, ub>>

Next ==
    \/ TupleTryZipWith
    \/ TupleNext
    \/ TupleCallOk
    \/ TupleCallErr
    \/ TupleCallPanic
    \/ TupleExit
    \/ TupleDrop
    \/ FallbackNext
    \/ FallbackCallOk
    \/ FallbackCallErr
    \/ FallbackCallPanic
    \/ Zip2TryZipWith
    \/ Zip2Next
    \/ Zip2CallOk
    \/ Zip2CallErr
    \/ Zip2CallPanic
    \/ Zip2Exit
    \/ Zip2Drop
    \/ MapTryMap
    \/ MapNext
    \/ MapCallOk
    \/ MapCallErr
    \/ MapCallPanic
    \/ MapExit
    \/ MapDrop
    \/ DropAndReuseClear
    \/ DropAndReuseMap
    \/ CombinTryIntoVec
    \/ CombinNext
    \/ CombinCallOk
    \/ CombinCallPanic
    \/ CombinExit
    \/ CombinDrop
    \/ RunDropSlice
    \/ RunFree
    \/ UnwindRetDrop
    \/ UnwindRetForget
    \/ Finish

Spec == Init /\ [][Next]_vars

\* The n-ary engine on its own: try_zip_with on a tuple for which check_pick is true,
\* run as the single thread of the call.  Every step of that thread is taken
\* eventually (the transform is assumed to return or panic, as are destructors).
InitEngine == InitFor({"tuple"}) /\ TupleCheckPick(vecs, 1, layoutV)

NextEngine ==
    \/ TupleTryZipWith
    \/ TupleNext
    \/ TupleCallOk
    \/ TupleCallErr
    \/ TupleCallPanic
    \/ TupleExit
    \/ TupleDrop
    \/ RunDropSlice
    \/ RunFree
    \/ UnwindRetDrop
    \/ UnwindRetForget
    \/ Finish

SpecEngine == InitEngine /\ [][NextEngine]_vars /\ WF_vars(NextEngine)

\* The combinator API on its own, with try_map as the outermost combinator.
InitCombin == InitFor(CombinApis)

NextCombin ==
    \/ CombinTryIntoVec
    \/ CombinNext
    \/ CombinInnerOk
    \/ CombinInnerPanic
    \/ CombinCallOk
    \/ CombinCallErr
    \/ CombinCallPanic
    \/ CombinExit
    \/ CombinDrop
    \/ RunDropSlice
    \/ RunFree
    \/ UnwindRetDrop
    \/ Finish

SpecCombin == InitCombin /\ [][NextCombin]_vars

\* ------------------------------------------------------------- the box API (src/boxed.rs)
\* A run of the box API: the caller obtains an UninitBox (by emptying a Box<T0>, or
\* from UninitBox::new / from_layout), then drops it or initialises it as a Box<T>,
\* and drops what it still owns.  The heap block of the box is buffer 1; buffer 0 is
\* the zero-sized place at the dangling address a zero-sized box points to.
BoxLayouts == {<<0, 1>>, <<4, 4>>, <<4, 2>>, <<8, 8>>}
BoxApis == {"drop_box", "take_box", "new"}
Dangling == 0                        \* layout.align() as *mut u8: no allocation
OrigVal == Elem(1, 1)                \* the value in the Box<T0> at entry
NewVal == <<"new">>                  \* a value the caller makes for init / init_with

\* where a Box<T> / a from_layout allocation of this layout lives
PtrFor(layout) == IF layout[1] = 0 THEN Dangling ELSE 1

\* Layout's equality (assert_eq!(self.layout, Layout::new::<T>())): size and align.
\* mutant: only the sizes are compared
LayoutEqSizeOnly(a, b) == a[1] = b[1]

LayoutEq(a, b) == a[1] = b[1] /\ a[2] = b[2]

InitBox ==
    /\ api \in BoxApis
    /\ layoutV \in BoxLayouts
    /\ \E t0 \in BoxLayouts :
          IF api = "new"
          THEN /\ tbox = << >>
               /\ heap = << >>
               /\ mem = [b \in 0..1 |-> << Uninit >>]
          ELSE /\ tbox = << [ptr |-> PtrFor(t0), layout |-> t0] >>
               /\ heap = IF t0[1] = 0 THEN << >> ELSE << t0 >>
               /\ mem = [b \in 0..1 |-> IF b = PtrFor(t0) THEN << OrigVal >> ELSE << Uninit >>]
    /\ ubox = << >>
    /\ held = {}
    /\ ops = << >>
    /\ vecs = << >>
    /\ input = << >>
    /\ out = OutputNew(0, 0)
    /\ init_len = 0
    /\ min_len = 0
    /\ should_free = FALSE
    /\ pc = "b_entry"
    /\ inflight = << >>
    /\ calls = << >>
    /\ todo = << >>
    /\ panicking = FALSE
    /\ dtorPanicked = FALSE
    /\ dropLog = << >>
    /\ freed = [b \in 0..1 |-> 0]
    /\ ret = << >>
    /\ err = << >>
    /\ result = <<"none">>
    /\ ub = {}

\* std::alloc::dealloc(ptr, layout): the block must be live and allocated with layout.
DeallocUb(ptr, layout) ==
    IF ptr = Dangling THEN {"dealloc_unallocated"}
    ELSE IF heap = << >> THEN {"double_free"}
    ELSE IF heap[1] # layout THEN {"dealloc_layout"}
    ELSE {}

\* impl Drop for UninitBox: dealloc(self.ptr, self.layout); the effect on
\* <<heap, freed, ub>>.
\* mutant: the allocation is not returned to the allocator
UninitBoxDropLeaks(bx) == << heap, freed, ub >>

UninitBoxDropEffect(bx) ==
    << IF bx.ptr = Dangling THEN heap ELSE << >>,
       [freed EXCEPT ![bx.ptr] = @ + 1],
       ub \cup DeallocUb(bx.ptr, bx.layout) >>

\* Dropping a Box<T>: the value's destructor, then the block is freed unless T is
\* zero-sized; the effect on <<heap, freed, ub>>.
BoxFreeEffect(bx) ==
    IF bx.layout[1] = 0 THEN << heap, freed, ub >>
    ELSE << << >>, [freed EXCEPT ![bx.ptr] = @ + 1], ub \cup DeallocUb(bx.ptr, bx.layout) >>

OpRecord(op, bx, T, value, outcome) ==
    [op |-> op, ptr |-> bx.ptr, layout |-> bx.layout, T |-> T, value |-> value,
     outcome |-> outcome]

\* BoxExt::drop_box: Layout::for_value, Box::into_raw, drop_in_place, and the UninitBox
\* is built only when the destructor returns.
BoxDropBox ==
    /\ pc = "b_entry" /\ api = "drop_box"
    /\ LET bx == tbox[1]
       IN  /\ tbox' = << >>
           /\ dropLog' = Append(dropLog, mem[bx.ptr][1])
           /\ \/ /\ ubox' = << [ptr |-> bx.ptr, layout |-> bx.layout] >>
                 /\ ops' = Append(ops, OpRecord("drop_box", bx, bx.layout, mem[bx.ptr][1], "ok"))
                 /\ pc' = "b_uninit"
                 /\ UNCHANGED <<panicking, dtorPanicked>>
              \/ /\ ubox' = << >>
                 /\ ops' = Append(ops, OpRecord("drop_box", bx, bx.layout, mem[bx.ptr][1], "panic"))
                 /\ panicking' = TRUE
                 /\ dtorPanicked' = TRUE
                 /\ pc' = "b_end"
    /\ UNCHANGED <<vecVars, api, layoutV, mem, calls, freed, result, ub, held, heap>>

\* BoxExt::take_box: Box::into_raw, ptr.read(), and the pair (UninitBox, value).
BoxTakeBox ==
    /\ pc = "b_entry" /\ api = "take_box"
    /\ LET bx == tbox[1]
       IN  /\ tbox' = << >>
           /\ held' = held \cup { ReadCell(bx.ptr, 0) }
           /\ ubox' = << [ptr |-> bx.ptr, layout |-> bx.layout] >>
           /\ ops' = Append(ops, OpRecord("take_box", bx, bx.layout, ReadCell(bx.ptr, 0), "ok"))
    /\ pc' = "b_uninit"
    /\ UNCHANGED <<vecVars, api, layoutV, mem, calls, panicking, dtorPanicked, dropLog,
                   freed, result, ub, heap>>

\* UninitBox::new / from_layout: a zero-sized layout gets the dangling pointer, any
\* other an allocation; a null from the allocator ends in handle_alloc_error.
UninitBoxFromLayout ==
    /\ pc = "b_entry" /\ api = "new"
    /\ \E layout \in BoxLayouts :
          LET bx == [ptr |-> PtrFor(layout), layout |-> layout]
          IN  IF layout[1] = 0
              THEN /\ ubox' = << bx >>
                   /\ ops' = Append(ops, OpRecord("from_layout", bx, layout, Uninit, "ok"))
                   /\ pc' = "b_uninit"
                   /\ heap' = heap
              ELSE \/ /\ ubox' = << bx >>
                      /\ heap' = << layout >>
                      /\ ops' = Append(ops, OpRecord("from_layout", bx, layout, Uninit, "ok"))
                      /\ pc' = "b_uninit"
                   \/ /\ ops' = Append(ops, OpRecord("from_layout", bx, layout, Uninit, "null"))
                      /\ pc' = "abort"
                      /\ UNCHANGED <<ubox, heap>>
    /\ UNCHANGED <<vecVars, api, layoutV, mem, calls, panicking, dtorPanicked, dropLog,
                   freed, result, ub, tbox, held>>

\* the values the caller can pass to init
InitValues == held \cup { NewVal }

\* UninitBox::init::<T>(self, value): the assertion, then ManuallyDrop, write, and
\* Box::from_raw.  A failed assertion unwinds through the two arguments: value is
\* dropped and self is deallocated.
UninitBoxInit ==
    /\ pc = "b_uninit"
    /\ \E value \in InitValues :
          LET bx == ubox[1]
              eff == UninitBoxDropEffect(bx)
          IN  /\ held' = held \ { value }
              /\ ubox' = << >>
              /\ IF LayoutEq(bx.layout, layoutV)
                 THEN /\ mem' = [mem EXCEPT ![bx.ptr][1] = value]
                      /\ tbox' = << [ptr |-> bx.ptr, layout |-> layoutV] >>
                      /\ ops' = Append(ops, OpRecord("init", bx, layoutV, value, "ok"))
                      /\ pc' = "b_boxed"
                      /\ UNCHANGED <<panicking, dropLog, heap, freed, ub>>
                 ELSE /\ ops' = Append(ops, OpRecord("init", bx, layoutV, value, "layout_panic"))
                      /\ panicking' = TRUE
                      /\ dropLog' = Append(dropLog, value)
                      /\ heap' = eff[1]
                      /\ freed' = eff[2]
                      /\ ub' = eff[3]
                      /\ pc' = "b_end"
                      /\ UNCHANGED <<mem, tbox>>
    /\ UNCHANGED <<vecVars, api, layoutV, calls, dtorPanicked, result>>

\* UninitBox::init_with::<T, F>(self, value: F): the assertion, then ManuallyDrop, and
\* write(value()): the initializer runs after self went into ManuallyDrop.
UninitBoxInitWith ==
    /\ pc = "b_uninit"
    /\ LET bx == ubox[1]
           eff == UninitBoxDropEffect(bx)
       IN  /\ ubox' = << >>
           /\ IF LayoutEq(bx.layout, layoutV)
              THEN \/ /\ calls' = Append(calls, << << >>, "ok" >>)
                      /\ mem' = [mem EXCEPT ![bx.ptr][1] = NewVal]
                      /\ tbox' = << [ptr |-> bx.ptr, layout |-> layoutV] >>
                      /\ ops' = Append(ops, OpRecord("init_with", bx, layoutV, NewVal, "ok"))
                      /\ pc' = "b_boxed"
                      /\ UNCHANGED <<panicking, heap, freed, ub>>
                   \/ /\ calls' = Append(calls, << << >>, "panic" >>)
                      /\ ops' = Append(ops, OpRecord("init_with", bx, layoutV, Uninit, "panic"))
                      /\ panicking' = TRUE
                      /\ pc' = "b_end"
                      /\ UNCHANGED <<mem, tbox, heap, freed, ub>>
              ELSE /\ ops' = Append(ops, OpRecord("init_with", bx, layoutV, Uninit, "layout_panic"))
                   /\ panicking' = TRUE
                   /\ heap' = eff[1]
                   /\ freed' = eff[2]
                   /\ ub' = eff[3]
                   /\ pc' = "b_end"
                   /\ UNCHANGED <<mem, tbox, calls>>
    /\ UNCHANGED <<vecVars, api, layoutV, dtorPanicked, dropLog, result, held>>

\* The caller drops the UninitBox.
UninitBoxDrop ==
    /\ pc = "b_uninit"
    /\ LET bx == ubox[1]
           eff == UninitBoxDropEffect(bx)
       IN  /\ ops' = Append(ops, OpRecord("drop_uninit", bx, bx.layout, Uninit, "ok"))
           /\ heap' = eff[1]
           /\ freed' = eff[2]
           /\ ub' = eff[3]
    /\ ubox' = << >>
    /\ pc' = "b_end"
    /\ UNCHANGED <<vecVars, api, layoutV, mem, calls, panicking, dtorPanicked, dropLog,
                   result, tbox, held>>

\* The caller drops the Box<T> that init / init_with returned: the value's destructor
\* (which may panic), and the block is freed in either case.
BoxDrop ==
    /\ pc = "b_boxed"
    /\ LET bx == tbox[1]
           eff == BoxFreeEffect(bx)
       IN  /\ dropLog' = Append(dropLog, mem[bx.ptr][1])
           /\ ops' = Append(ops, OpRecord("drop", bx, bx.layout, mem[bx.ptr][1], "ok"))
           /\ heap' = eff[1]
           /\ freed' = eff[2]
           /\ ub' = eff[3]
    /\ \/ UNCHANGED <<panicking, dtorPanicked>>
       \/ panicking' = TRUE /\ dtorPanicked' = TRUE
    /\ tbox' = << >>
    /\ pc' = "b_end"
    /\ UNCHANGED <<vecVars, api, layoutV, mem, calls, result, ubox, held>>

\* The caller's scope ends (or is unwound): the values it still holds are dropped.
HeldSeq == IF held = {} THEN << >> ELSE << CHOOSE v \in held : TRUE >>

BoxScopeEnd ==
    /\ pc = "b_end"
    /\ dropLog' = dropLog \o HeldSeq
    /\ held' = {}
    /\ result' = IF panicking THEN <<"panic">> ELSE <<"Ok">>
    /\ pc' = "done"
    /\ UNCHANGED <<vecVars, api, layoutV, mem, calls, panicking, dtorPanicked, freed, ub,
                   ubox, tbox, heap, ops>>

NextBox ==
    \/ BoxDropBox
    \/ BoxTakeBox
    \/ UninitBoxFromLayout
    \/ UninitBoxInit
    \/ UninitBoxInitWith
    \/ UninitBoxDrop
    \/ BoxDrop
    \/ BoxScopeEnd

SpecBox == InitBox /\ [][NextBox]_vars

\* ------------------------------------------------------------- vocabulary of the properties
NInputs == Len(vecs)
InputElems == UNION { { Elem(b, j) : j \in 1..vecs[b].len } : b \in 1..NInputs }
DropCount(c) == Cardinality({ i \in DOMAIN dropLog : dropLog[i] = c })
\* the elements the engine handed to the transform
MovedIn == UNION { { calls[i][1][b] : b \in DOMAIN calls[i][1] } : i \in DOMAIN calls }
\* the values the transform returned
Produced == { OutVal(calls[i][1]) : i \in { n \in DOMAIN calls : calls[n][2] = "ok" } }
TransformFailed == calls # << >> /\ calls[Len(calls)][2] \in {"err", "panic"}
\* row i of the inputs at entry, in argument (cons) order
EntryRow(i) == [b \in 1..NInputs |-> Elem(b, i)]
MinInputLen == CHOOSE m \in { vecs[b].len : b \in 1..NInputs } :
                  \A b \in 1..NInputs : m <= vecs[b].len
Matching == { b \in 1..NInputs : vecs[b].layout = layoutV }
MaxMatchingCap == CHOOSE c \in { vecs[b].cap : b \in Matching } :
                     \A b \in Matching : vecs[b].cap <= c
HasAlloc(b) == vecs[b].cap > 0
\* the n-ary engine on its reuse path
TupleReuse == api = "tuple" /\ Matching # {}
\* the cells of the buffer the caller received
ReturnedCells == IF result[1] = "Ok"
                 THEN { mem[result[2].buf][k] : k \in 1..result[2].len }
                 ELSE {}
\* the input whose allocation was surrendered to the output
Surrendered == { b \in DOMAIN input : ~input[b].drop_alloc }

\* ------------------------------------------------------------- C1
\* C1: n-ary engine, reuse path, transform all-ok / error at row k / panic at row k
\* (no destructor panics): when the call has finished, every element that was in an
\* input at entry has been moved into the transform or dropped by the engine, and
\* every value the transform produced is in the returned buffer or has been dropped.
C1_NoLeak ==
    (pc = "done" /\ TupleReuse /\ ~dtorPanicked) =>
        /\ \A e \in InputElems : e \in MovedIn \/ DropCount(e) >= 1
        /\ \A v \in Produced : v \in ReturnedCells \/ DropCount(v) >= 1

C1_Witness ==
    /\ pc = "done" /\ TupleReuse /\ ~dtorPanicked
    /\ NInputs = 3 /\ Len(calls) = 2 /\ calls[2][2] = "err"
    /\ vecs[1].len # vecs[2].len
    /\ DropCount(Elem(1, 3)) = 1 /\ DropCount(OutVal(EntryRow(1))) = 1

\* ------------------------------------------------------------- C2
\* C2: n-ary engine, under any transform error / panic and any destructor panics
\* during cleanup: no input element and no output value is dropped more than once, no
\* element moved into the transform (or read for it) is dropped by the engine, and no
\* destructor runs on an uninitialised or out-of-bounds cell.
C2_NoDoubleDrop ==
    api = "tuple" =>
        /\ \A i \in DOMAIN dropLog : DropCount(dropLog[i]) = 1
        /\ \A i \in DOMAIN dropLog :
              /\ dropLog[i] \notin MovedIn
              /\ \A b \in DOMAIN inflight : dropLog[i] # inflight[b]
        /\ ub \cap {"drop_uninit", "oob_drop"} = {}

C2_Witness ==
    /\ api = "tuple" /\ TupleReuse /\ pc = "done"
    /\ dtorPanicked /\ err # << >>
    /\ Len(calls) = 2 /\ Len(dropLog) >= 3

\* ------------------------------------------------------------- C3
\* C3: allocation accounting of the n-ary engine (no destructor panics): no buffer is
\* ever freed twice; on success the caller's vector owns one input buffer, which was
\* not freed, and every other input allocation was freed exactly once; on failure
\* (error or panic at any row) every input allocation was freed exactly once.
\* (A vector of capacity 0 owns no allocation.)
C3_AllocAccounting ==
    TupleReuse =>
        /\ \A b \in DOMAIN freed : freed[b] <= 1
        /\ (pc = "done" /\ ~dtorPanicked) =>
              IF result[1] = "Ok"
              THEN /\ result[2].buf \in 1..NInputs
                   /\ freed[result[2].buf] = 0
                   /\ \A b \in 1..NInputs :
                         (b # result[2].buf /\ HasAlloc(b)) => freed[b] = 1
              ELSE \A b \in 1..NInputs : HasAlloc(b) => freed[b] = 1

C3_Witness ==
    /\ TupleReuse /\ pc = "done" /\ ~dtorPanicked
    /\ NInputs = 3 /\ result[1] = "panic"
    /\ \A b \in 1..NInputs : HasAlloc(b) /\ freed[b] = 1

\* ------------------------------------------------------------- C4
\* C4: when at least one input's layout equals the output layout, the buffer
\* try_zip_with returns is the buffer of a layout-matching input whose capacity is the
\* maximum capacity among the layout-matching inputs.
C4_ReuseWhenMatching ==
    (api = "tuple" /\ result[1] = "Ok" /\ Matching # {}) =>
        /\ result[2].buf \in Matching
        /\ vecs[result[2].buf].cap = MaxMatchingCap
        /\ result[2].cap = MaxMatchingCap

C4_Witness ==
    /\ api = "tuple" /\ result[1] = "Ok" /\ NInputs = 3
    /\ Matching = {1, 3}
    /\ vecs[2].cap > vecs[3].cap /\ vecs[3].cap > vecs[1].cap
    /\ result[2].buf = 3 /\ result[2].len = 1

\* ------------------------------------------------------------- C5
\* the layout-matching inputs that share the maximum capacity
MaxCapMatching == { b \in Matching : vecs[b].cap = MaxMatchingCap }
LastOf(S) == CHOOSE b \in S : \A c \in S : c <= b
FirstOf(S) == CHOOSE b \in S : \A c \in S : b <= c

\* C5 as stated: when two or more layout-matching inputs share the maximum capacity,
\* the surrendered input is the one at the later position in the cons list.
C5_TieLater ==
    (api = "tuple" /\ pc # "entry" /\ Cardinality(MaxCapMatching) >= 2) =>
        Surrendered = { LastOf(MaxCapMatching) }

\* C5 amended: when two or more layout-matching inputs share the maximum capacity, the
\* surrendered input is the one at the earliest position in the cons list.
C5_TieEarlier ==
    (api = "tuple" /\ pc # "entry" /\ Cardinality(MaxCapMatching) >= 2) =>
        /\ Surrendered = { FirstOf(MaxCapMatching) }
        /\ out.start = FirstOf(MaxCapMatching)

C5_Witness ==
    /\ api = "tuple" /\ pc = "done" /\ NInputs = 3
    /\ MaxCapMatching = {2, 3}
    /\ 1 \in Matching
    /\ Surrendered = {2}
    /\ result[1] = "Ok" /\ result[2].buf = 2

\* ------------------------------------------------------------- C6
\* C6: for every successful try_zip_with / zip_with call of the n-ary engine and of the
\* 2-ary VecExt method, the length of the returned buffer is the minimum of the input
\* lengths at entry (0 when an input is empty).
C6_Length ==
    (api \in {"tuple", "zip2"} /\ result[1] = "Ok") => result[2].len = MinInputLen

C6_Witness ==
    /\ api = "tuple" /\ result[1] = "Ok" /\ NInputs = 3 /\ TupleReuse
    /\ vecs[1].len = 2 /\ vecs[2].len = 1 /\ vecs[3].len = 2
    /\ result[2].len = 1

\* ------------------------------------------------------------- C7
\* C7: the transform is always handed the elements the inputs held at entry, row by
\* row in cons order (a write of output slot i never changes an element read at a
\* later row), and on success element i of the returned buffer is the transform's
\* result on row i, for every i below the minimum length.
C7_Elementwise ==
    /\ \A i \in DOMAIN calls : calls[i][1] = EntryRow(i)
    /\ inflight # << >> => UserRow(inflight) = EntryRow(Len(calls) + 1)
    /\ (result[1] = "Ok" /\ api # "reuse") =>
          \A i \in 1..MinInputLen : mem[result[2].buf][i] = OutVal(EntryRow(i))

C7_Witness ==
    /\ api = "tuple" /\ TupleReuse /\ result[1] = "Ok" /\ NInputs = 3
    /\ result[2].len = 2 /\ result[2].buf = 2
    /\ mem[2][2] = OutVal(<< Elem(1, 2), Elem(2, 2), Elem(3, 2) >>)

\* ------------------------------------------------------------- C8
\* the 1-based row at which the transform failed
FailRow == Len(calls)

\* C8: at most one invocation of the transform fails and it is the last one; when a
\* try_zip_with / try_map call whose transform first fails at row k has finished, the
\* transform was invoked on rows 0..=k once each, in order, and on no later row, the
\* values produced for rows 0..k have each been dropped once, the input elements of
\* row k were not dropped by the library, and the input elements of every row > k of
\* every input have each been dropped once.
C8_ShortCircuit ==
    /\ \A i \in DOMAIN calls : i < Len(calls) => calls[i][2] = "ok"
    /\ (pc = "done" /\ TransformFailed) =>
          /\ \A i \in 1..FailRow : calls[i][1] = EntryRow(i)
          /\ \A i \in 1..FailRow - 1 : DropCount(OutVal(EntryRow(i))) = 1
          /\ \A b \in 1..NInputs : DropCount(Elem(b, FailRow)) = 0
          /\ \A b \in 1..NInputs : \A j \in FailRow + 1..vecs[b].len :
                DropCount(Elem(b, j)) = 1

C8_Witness ==
    /\ pc = "done" /\ api = "map" /\ vecs[1].layout = layoutV
    /\ calls # << >> /\ calls[Len(calls)][2] = "err"
    /\ FailRow = 2 /\ vecs[1].len = 3
    /\ DropCount(OutVal(EntryRow(1))) = 1 /\ DropCount(Elem(1, 3)) = 1

\* ------------------------------------------------------------- C9
\* C9: a try_map / try_zip_with call that returns, returns Err(e) if and only if some
\* invocation of the transform returned an error; e is the error of the first failing
\* row; no buffer is handed to the caller then (every input allocation has been
\* freed); and when no invocation fails the call returns Ok(buffer).
C9_ErrorSurfacing ==
    (pc = "done" /\ result[1] # "panic") =>
        /\ result[1] = "Err" <=> \E i \in DOMAIN calls : calls[i][2] = "err"
        /\ result[1] = "Err" =>
              /\ result = <<"Err", ErrVal(EntryRow(FailRow))>>
              /\ \A i \in 1..FailRow - 1 : calls[i][2] = "ok"
              /\ ret = << >>
              /\ \A b \in 1..NInputs : HasAlloc(b) => freed[b] = 1
        /\ ~TransformFailed => result[1] = "Ok"

C9_Witness ==
    /\ pc = "done" /\ api = "tuple" /\ TupleReuse /\ NInputs = 2
    /\ result = <<"Err", ErrVal(<< Elem(1, 2), Elem(2, 2) >>)>>

\* ------------------------------------------------------------- C10
\* C10: 2-ary VecExt::try_zip_with, the transform returns an error or panics at row k:
\* when the cleanup has run, the k outputs already written have each been dropped
\* once, every element at an index > k of both inputs has been dropped once, the two
\* row-k elements were not dropped by the library, and both input allocations have
\* been freed exactly once.
C10_Zip2FailureCleanup ==
    (api = "zip2" /\ pc = "done" /\ TransformFailed) =>
        /\ \A i \in 1..FailRow - 1 : DropCount(OutVal(EntryRow(i))) = 1
        /\ \A b \in 1..2 : \A j \in FailRow + 1..vecs[b].len : DropCount(Elem(b, j)) = 1
        /\ \A b \in 1..2 : DropCount(Elem(b, FailRow)) = 0
        /\ \A b \in 1..2 : freed[b] = 1
        /\ \A i \in DOMAIN dropLog : DropCount(dropLog[i]) = 1
        /\ ub = {}

C10_Witness ==
    /\ api = "zip2" /\ pc = "done" /\ TransformFailed
    /\ Zip2Arm(vecs[1], vecs[2], layoutV) = "right"
    /\ FailRow = 2 /\ vecs[1].len = 3 /\ vecs[2].len = 2
    /\ Len(dropLog) = 2

\* ------------------------------------------------------------- C11
\* the arm the 2-ary method takes for the inputs of this run
Zip2RunArm == Zip2Arm(vecs[1], vecs[2], layoutV)
\* the input (1 = self, 2 = other) whose buffer the 2-ary method writes into
Zip2Reused == IF Zip2RunArm = "left" THEN 1 ELSE 2

\* C11: 2-ary zip_with on its reuse path with inputs of different lengths, on success:
\* the result has length min(len(self), len(other)); every element of the longer
\* input at an index >= that length has been dropped exactly once; the allocation of
\* the input that is not reused has been freed exactly once; the reused allocation
\* has not been freed and is the returned vector's.
C11_ZipWithDiff ==
    (api = "zip2" /\ result[1] = "Ok" /\ Zip2RunArm # "none"
                  /\ vecs[1].len # vecs[2].len) =>
        /\ result[2].len = Min(vecs[1].len, vecs[2].len)
        /\ \A b \in 1..2 : \A j \in 1..vecs[b].len :
              DropCount(Elem(b, j)) = IF j > MinInputLen THEN 1 ELSE 0
        /\ result[2].buf = Zip2Reused
        /\ result[2].cap = vecs[Zip2Reused].cap
        /\ freed[Zip2Reused] = 0
        /\ HasAlloc(3 - Zip2Reused) => freed[3 - Zip2Reused] = 1
        /\ ub = {}

C11_Witness ==
    /\ api = "zip2" /\ result[1] = "Ok" /\ Zip2RunArm = "left"
    /\ vecs[1].len = 1 /\ vecs[2].len = 3
    /\ DropCount(Elem(2, 2)) = 1 /\ DropCount(Elem(2, 3)) = 1
    /\ freed = [b \in 0..2 |-> IF b = 2 THEN 1 ELSE 0]

\* ------------------------------------------------------------- C12
\* C12: try_map on its same-layout path, the transform returns an error at index k
\* (row k + 1 here) and the call returns: the k values produced before have each been
\* dropped once, every input element at an index > k has been dropped once, the
\* element at index k was not dropped by the library, the allocation has been freed
\* exactly once, and the call returns the transform's error.
C12_TryMapEarlyReturn ==
    (api = "map" /\ vecs[1].layout = layoutV /\ pc = "done" /\ result[1] = "Err") =>
        /\ calls[FailRow][2] = "err"
        /\ \A i \in 1..FailRow - 1 : DropCount(OutVal(<< Elem(1, i) >>)) = 1
        /\ \A j \in FailRow + 1..vecs[1].len : DropCount(Elem(1, j)) = 1
        /\ \A j \in 1..FailRow : DropCount(Elem(1, j)) = 0
        /\ Len(dropLog) = vecs[1].len - 1
        /\ freed[1] = 1
        /\ result = <<"Err", ErrVal(<< Elem(1, FailRow) >>)>>
        /\ ub = {}

C12_Witness ==
    /\ api = "map" /\ vecs[1].layout = layoutV /\ pc = "done"
    /\ vecs[1].len = 3 /\ vecs[1].cap = 4
    /\ result = <<"Err", ErrVal(<< Elem(1, 2) >>)>>
    /\ dropLog = << Elem(1, 3), OutVal(<< Elem(1, 1) >>) >>
    /\ freed[1] = 1

\* ------------------------------------------------------------- C13
\* C13: a map / try_map call that succeeds returns the input's own buffer (same base
\* pointer, same capacity, the input's length, not freed) if and only if the input
\* and output element layouts are equal in size and in alignment; otherwise it
\* returns a fresh buffer and the input's allocation has been freed.
C13_MapReuseDecision ==
    (api = "map" /\ result[1] = "Ok") =>
        IF vecs[1].layout[1] = layoutV[1] /\ vecs[1].layout[2] = layoutV[2]
        THEN /\ result[2].buf = 1
             /\ result[2].cap = vecs[1].cap
             /\ result[2].len = vecs[1].len
             /\ freed[1] = 0
        ELSE /\ result[2].buf = 0
             /\ result[2].len = vecs[1].len
             /\ HasAlloc(1) => freed[1] = 1

C13_Witness ==
    /\ api = "map" /\ result[1] = "Ok"
    /\ vecs[1].layout = <<4, 2>> /\ layoutV = <<4, 4>>
    /\ vecs[1].len = 2
    /\ result[2].buf = 0 /\ freed[1] = 1

\* ------------------------------------------------------------- C14
\* the buffer the 2-ary engine writes into, once it is constructed (0: none)
Zip2Left == IF api = "zip2" /\ pc \in {"z_loop", "z_call", "z_drop"}
            THEN input[1].start ELSE 0

\* C14: the allocation the 2-ary try_zip_with reuses belongs to an input whose layout
\* equals the output layout and whose capacity is the largest among such inputs; when
\* both inputs match it is the one of larger capacity, self on a tie; when neither
\* matches no input allocation is reused (the call takes the fallback path and a
\* successful result is a fresh buffer).
C14_Zip2ReuseSelection ==
    api = "zip2" =>
        /\ Zip2Left # 0 =>
              /\ Zip2Left \in Matching
              /\ vecs[Zip2Left].cap = MaxMatchingCap
              /\ (Matching = {1, 2} /\ vecs[1].cap >= vecs[2].cap) => Zip2Left = 1
              /\ (Matching = {1, 2} /\ vecs[1].cap < vecs[2].cap) => Zip2Left = 2
        /\ (Matching # {} /\ pc \notin {"entry", "done", "abort"}) =>
              pc \in {"z_loop", "z_call", "z_drop", "cleanup"}
        /\ Matching = {} => pc \in {"entry", "fb_loop", "fb_call", "cleanup", "done", "abort"}
        /\ result[1] = "Ok" =>
              result[2].buf = (IF Matching = {} THEN 0
                               ELSE IF Matching = {1, 2}
                                    THEN (IF vecs[1].cap >= vecs[2].cap THEN 1 ELSE 2)
                                    ELSE CHOOSE b \in Matching : TRUE)

C14_Witness ==
    /\ api = "zip2" /\ Matching = {1, 2}
    /\ vecs[1].cap = vecs[2].cap /\ vecs[1].len = 2 /\ vecs[2].len = 1
    /\ result[1] = "Ok" /\ result[2].buf = 1 /\ result[2].cap = vecs[1].cap

\* ------------------------------------------------------------- C15
\* C15: drop_and_reuse never invokes the transform; when the call has returned, every
\* element of the input has been dropped exactly once and the returned buffer is
\* empty; when the layouts of T and U are equal it has the input's base pointer and
\* capacity and the allocation was not freed, and when they are not the input's
\* allocation has been freed exactly once.
C15_DropAndReuse ==
    api = "reuse" =>
        /\ calls = << >> /\ inflight = << >>
        /\ "unreachable" \notin ub
        /\ result[1] = "Ok" =>
              /\ \A j \in 1..vecs[1].len : DropCount(Elem(1, j)) = 1
              /\ Len(dropLog) = vecs[1].len
              /\ result[2].len = 0
              /\ IF vecs[1].layout = layoutV
                 THEN /\ result[2].buf = 1
                      /\ result[2].cap = vecs[1].cap
                      /\ freed[1] = 0
                 ELSE /\ result[2].buf # 1
                      /\ freed[1] = IF HasAlloc(1) THEN 1 ELSE 0
              /\ ub = {}

C15_Witness ==
    /\ api = "reuse" /\ result[1] = "Ok"
    /\ vecs[1].len = 3 /\ vecs[1].cap = 4 /\ vecs[1].layout = layoutV
    /\ dropLog = << Elem(1, 1), Elem(1, 2), Elem(1, 3) >>
    /\ result[2] = [buf |-> 1, len |-> 0, cap |-> 4, temp |-> FALSE]

\* ------------------------------------------------------------- C16
\* the input list with the element layouts and the capacities of this run's and
\* no elements: the run that every run with these layouts and capacities is
\* compared with
SameLayoutsAndCaps == [b \in 1..NInputs |-> [vecs[b] EXCEPT !.len = 0]]
\* what the n-ary try_zip_with decides for an input list: the cons position whose
\* allocation is surrendered, or 0 when it takes the collecting path
TupleDecision(vs) ==
    IF TupleCheckPick(vs, 1, layoutV)
    THEN LET p == TuplePickImpl(IntoData(vs), 1, layoutV)
         IN  IF p = << >> THEN -1 ELSE p[1].ptr
    ELSE 0
\* what the 2-ary try_zip_with decides: 1 (self), 2 (other) or 0 (collecting path)
Zip2Decision(vs) ==
    LET arm == Zip2Arm(vs[1], vs[2], layoutV)
    IN  IF arm = "left" THEN 1 ELSE IF arm = "right" THEN 2 ELSE 0
InFallback == pc \in {"fb_loop", "fb_call"}

\* C16: the decision a run has taken (whether an input allocation is reused, and which
\* input is surrendered) is the decision the code takes for the input list of the same
\* element layouts and capacities that holds no elements (so any two runs that agree
\* on layouts and capacities decide alike, whatever their lengths and contents), and
\* it stays the same whatever the transform returns afterwards.
C16_LayoutCheckIdempotent ==
    /\ (api = "tuple" /\ pc # "entry") =>
          LET d == TupleDecision(SameLayoutsAndCaps)
          IN  /\ Surrendered = (IF d > 0 THEN {d} ELSE {})
              /\ InFallback => d = 0
              /\ pc \in {"t_loop", "t_call", "t_drop"} => out.start = d
    /\ api = "zip2" =>
          LET d == Zip2Decision(SameLayoutsAndCaps)
          IN  /\ InFallback => d = 0
              /\ Zip2Left # 0 => Zip2Left = d

C16_Witness ==
    /\ api = "tuple" /\ pc = "done" /\ NInputs = 3
    /\ vecs[1].len = 1 /\ vecs[2].len = 3 /\ vecs[3].len = 1
    /\ vecs[1].cap = 1 /\ vecs[2].cap = 3 /\ vecs[3].cap = 1
    /\ Matching = {1, 3}
    /\ Surrendered = {1}
    /\ calls = << << EntryRow(1), "err" >> >>

\* ------------------------------------------------------------- C17
\* What a finished call has shown its caller, as a function of the inputs at entry and
\* of the transform's outcomes alone: the transform was invoked on rows 1, 2, ... in
\* order, stopping at its first failure and else after the shortest input's last row;
\* the call returns the first failure's error, or a buffer holding the transform's
\* result for every row.
SameObservable ==
    /\ \A i \in DOMAIN calls : calls[i][1] = EntryRow(i)
    /\ \A i \in DOMAIN calls : i < Len(calls) => calls[i][2] = "ok"
    /\ ~TransformFailed => Len(calls) = MinInputLen
    /\ IF TransformFailed
       THEN result = (IF calls[FailRow][2] = "err"
                      THEN <<"Err", ErrVal(EntryRow(FailRow))>> ELSE <<"panic">>)
       ELSE /\ result[1] = "Ok"
            /\ result[2].len = MinInputLen
            /\ \A i \in 1..MinInputLen : mem[result[2].buf][i] = OutVal(EntryRow(i))

\* C17: try_zip_with / try_map calls that finish (no destructor panics) show the same
\* outcome, length, elements and transform invocations on the collecting path (no
\* input's layout equals the output layout) as on the in-place path: both satisfy
\* SameObservable.  On the collecting path a returned buffer is a fresh one, every
\* input element has been moved into the transform or dropped, exactly once, and
\* every input allocation has been freed exactly once.
C17_FallbackEquivalence ==
    (api \in {"tuple", "zip2", "map"} /\ pc = "done" /\ ~dtorPanicked) =>
        /\ SameObservable
        /\ Matching = {} =>
              /\ result[1] = "Ok" => result[2].buf = 0 /\ freed[0] = 0
              /\ \A e \in InputElems :
                    DropCount(e) = IF e \in MovedIn THEN 0 ELSE 1
              /\ \A b \in 1..NInputs : freed[b] = IF HasAlloc(b) THEN 1 ELSE 0
              /\ ub = {}

C17_Witness ==
    /\ api = "tuple" /\ pc = "done" /\ ~dtorPanicked /\ NInputs = 3
    /\ Matching = {}
    /\ vecs[1].len = 2 /\ vecs[2].len = 1 /\ vecs[3].len = 3
    /\ result[1] = "Ok" /\ result[2].len = 1
    /\ mem[0] = << OutVal(EntryRow(1)) >>
    /\ DropCount(Elem(1, 2)) = 1 /\ DropCount(Elem(3, 3)) = 1

\* ------------------------------------------------------------- C18
InitOps == { i \in DOMAIN ops : ops[i].op \in {"init", "init_with"} }

\* C18: whenever init / init_with is called for a type T whose layout differs from
\* the layout the UninitBox records, in size or in alignment, the call panics, no Box
\* is produced, nothing is written to the allocation and the initializer of init_with
\* is not invoked; when the layouts are equal the call returns (unless the initializer
\* of init_with panics) a Box at the UninitBox's pointer that holds the value.
C18_InitLayoutCheck ==
    \A i \in InitOps :
        LET o == ops[i]
        IN  IF o.layout[1] # o.T[1] \/ o.layout[2] # o.T[2]
            THEN /\ o.outcome = "layout_panic"
                 /\ panicking /\ tbox = << >> /\ result[1] # "Ok"
                 /\ calls = << >>
                 /\ mem[o.ptr][1] # NewVal
            ELSE /\ o.outcome = "ok" \/ (o.op = "init_with" /\ o.outcome = "panic")
                 /\ (o.outcome = "ok" /\ pc = "b_boxed") =>
                       /\ tbox = << [ptr |-> o.ptr, layout |-> o.T] >>
                       /\ mem[o.ptr][1] = o.value

C18_Witness ==
    /\ pc = "done" /\ api = "drop_box"
    /\ Len(ops) = 2 /\ ops[2].op = "init"
    /\ ops[2].layout = <<4, 4>> /\ ops[2].T = <<4, 2>> /\ ops[2].value = NewVal
    /\ ops[2].outcome = "layout_panic"
    /\ result = <<"panic">> /\ mem[1] = << OrigVal >>

\* ------------------------------------------------------------- C19
InitWithCalled == \E i \in DOMAIN ops : ops[i].op = "init_with"
NewValPassed == \E i \in DOMAIN ops : ops[i].op = "init" /\ ops[i].value = NewVal

\* C19: a Box is emptied by drop_box or take_box, and the UninitBox is then dropped or
\* passed to init, and the resulting Box dropped (no destructor panics): drop_box has
\* dropped the original value itself, take_box has handed it to the caller undropped;
\* when the caller's scope has ended the original value has been dropped exactly once,
\* a value passed to init has been dropped exactly once, and the allocation (of a
\* type that is not zero-sized) has been freed exactly once; the Box that init
\* returns is at the pointer of the Box that was emptied.
C19_EmptyAndReinit ==
    (api \in {"drop_box", "take_box"} /\ ~dtorPanicked /\ ~InitWithCalled) =>
        /\ (pc = "b_uninit" /\ api = "drop_box") => dropLog = << OrigVal >> /\ held = {}
        /\ (pc = "b_uninit" /\ api = "take_box") => dropLog = << >> /\ held = { OrigVal }
        /\ pc = "b_boxed" => tbox[1].ptr = ops[1].ptr /\ heap = (IF ops[1].ptr = Dangling THEN << >> ELSE << ops[1].layout >>)
        /\ pc = "done" =>
              /\ DropCount(OrigVal) = 1
              /\ DropCount(NewVal) = IF NewValPassed THEN 1 ELSE 0
              /\ Len(dropLog) = IF NewValPassed THEN 2 ELSE 1
              /\ ops[1].layout[1] > 0 => freed[1] = 1 /\ heap = << >> /\ ub = {}

C19_Witness ==
    /\ api = "take_box" /\ pc = "done" /\ ~dtorPanicked
    /\ Len(ops) = 3 /\ ops[2].op = "init" /\ ops[2].value = OrigVal /\ ops[2].outcome = "ok"
    /\ ops[3].op = "drop" /\ ops[3].ptr = 1
    /\ dropLog = << OrigVal >> /\ freed[1] = 1

\* ------------------------------------------------------------- C20
\* the elements of the returned buffer, and the transform's results row by row
ResultVec == [i \in 1..result[2].len |-> mem[result[2].buf][i]]
ExpectedVec == [i \in 1..MinInputLen |-> OutVal(EntryRow(i))]

\* C20: for the same input vectors and transform, the combinator calls
\* Data::from(a).zip(Data::from(b)).map(f).into_vec() and Data::from(v).map(f).into_vec()
\* and the direct calls a.zip_with(b, f) and v.map(f) return buffers of the same
\* length and elements (the transform's results on rows 1..min length, in order), and
\* invoke the transform on the same rows, whichever input's buffer is reused.
C20_CombinAgreesDirect ==
    (api \in {"zip2", "czip", "map", "cmap"}) =>
        /\ \A i \in DOMAIN calls : calls[i][1] = EntryRow(i)
        /\ result[1] = "Ok" =>
              /\ ResultVec = ExpectedVec
              /\ Len(calls) = MinInputLen

C20_Witness ==
    /\ api = "czip" /\ result[1] = "Ok"
    /\ vecs[1].len = 3 /\ vecs[2].len = 2
    /\ vecs[1].layout # layoutV /\ vecs[2].layout = layoutV
    /\ result[2].buf = 2 /\ result[2].len = 2
    /\ mem[2][2] = OutVal(<< Elem(1, 2), Elem(2, 2) >>)
    /\ DropCount(Elem(1, 3)) = 1 /\ freed[1] = 1 /\ freed[2] = 0

\* ------------------------------------------------------------- C21
\* C21: combinator API (try_into_vec over Data, zip, map and try_map), on success and
\* on a try_map error at any row: every input element has been moved into a closure
\* or dropped exactly once, every value a closure produced has been returned, moved
\* into the next closure or dropped exactly once, and every input allocation is the
\* returned buffer or has been freed exactly once.
C21_CombinDropSafety ==
    (pc = "done" /\ api \in CombinApis /\ result[1] \in {"Ok", "Err"}) =>
        /\ ub = {}
        /\ \A e \in InputElems :
              DropCount(e) = (IF e \in MovedIn THEN 0 ELSE 1) /\ e \notin ReturnedCells
        /\ \A v \in Produced :
              (IF v \in ReturnedCells THEN 1 ELSE 0) + (IF v \in MovedIn THEN 1 ELSE 0)
                 + DropCount(v) = 1
        /\ \A b \in 1..NInputs :
              HasAlloc(b) =>
                 freed[b] = (IF result[1] = "Ok" /\ result[2].buf = b THEN 0 ELSE 1)
        /\ freed[0] = (IF result[1] = "Err" /\ Surrendered = {} /\ out.cap > 0
                       THEN 1 ELSE 0)

\* a try_map error at the third row of Data.map(f).zip(Data).try_map(g) whose output
\* lies over the second input's buffer: outputs of two rows written, then dropped
C21_Witness ==
    /\ pc = "done" /\ api = "cmzip" /\ result[1] = "Err"
    /\ Surrendered = {2} /\ out.ptr = 2 /\ Len(calls) = 6
    /\ vecs[1].len = 3 /\ vecs[2].len = 3
    /\ freed[1] = 1 /\ freed[2] = 1

\* ------------------------------------------------------------- C22
\* the number of values the n-ary engine has written when a row is in flight or has
\* failed
WrittenAtFailure == init_len - min_len - 1

\* C22: n-ary engine, reuse path: wherever a row can fail (the transform is running,
\* or has returned an error or panicked), the outputs written so far are exactly the
\* results of rows 1..initial_length - remaining_length - 1 at the start of the
\* output, and the drop guard drops exactly these, each once.
C22_GuardCount ==
    /\ (TupleReuse /\ (pc = "t_call" \/ (pc = "t_drop" /\ should_free))) =>
          /\ out.ptr = WrittenAtFailure
          /\ \A i \in 1..WrittenAtFailure :
                mem[out.start][i] = OutVal(EntryRow(i)) /\ DropCount(mem[out.start][i]) = 0
    /\ (TupleReuse /\ pc = "done" /\ should_free) =>
          /\ \A i \in 1..WrittenAtFailure : DropCount(OutVal(EntryRow(i))) = 1
          /\ Cardinality({ k \in DOMAIN dropLog : dropLog[k] \in Produced }) = WrittenAtFailure
          /\ "drop_uninit" \notin ub /\ "oob_drop" \notin ub

\* three inputs, the transform fails at the third row: two outputs written and dropped
C22_Witness ==
    /\ TupleReuse /\ pc = "done" /\ should_free /\ NInputs = 3
    /\ Len(calls) = 3 /\ WrittenAtFailure = 2
    /\ DropCount(OutVal(EntryRow(2))) = 1

\* ------------------------------------------------------------- C23
\* the n-ary engine has processed every row (should_free is TRUE from entry until then)
TupleSucceeded == TupleReuse /\ ~should_free /\ pc \in {"t_drop", "cleanup", "done", "abort"}

TupleSegments == TupleReuse /\ pc # "entry"

\* C24 as stated: for every input segment, after any number of next() calls,
\* cursor + length = start + original length (next() advances the cursor and
\* decrements the length), length <= capacity and cursor >= start.
C24_CursorPlusLength ==
    TupleSegments =>
        \A b \in 1..NInputs :
            /\ input[b].ptr + input[b].len = vecs[b].len
            /\ input[b].len <= input[b].cap
            /\ input[b].ptr >= 0

\* C24 (amended): for every input segment, after any number of next() calls, the
\* length is still the original length and the cursor is start + (number of next()
\* calls), which is at most start + length; length <= capacity and cursor >= start.
C24_InputSegment ==
    TupleSegments =>
        \A b \in 1..NInputs :
            /\ input[b].start = b /\ input[b].cap = vecs[b].cap
            /\ input[b].len = vecs[b].len
            /\ input[b].ptr = init_len - min_len
            /\ input[b].ptr >= 0 /\ input[b].ptr <= input[b].len
            /\ input[b].len <= input[b].cap

\* two next() calls on segments of three elements
C24_Witness ==
    /\ TupleSegments /\ pc = "t_call" /\ NInputs >= 2
    /\ \A b \in 1..NInputs : input[b].ptr = 2 /\ input[b].len = 3

\* ------------------------------------------------------------- C25
SegmentFlags == [b \in DOMAIN input |-> input[b].drop_alloc]

\* C25: n-ary engine, after pick on a tuple for which check_pick is true: exactly one
\* input segment has drop_alloc cleared, its start and capacity are the output
\* segment's, every other segment has drop_alloc set, and no flag changes in any
\* later step of the run.
C25_SingleSurrender ==
    /\ [](TupleSegments =>
            /\ Cardinality(Surrendered) = 1
            /\ \A b \in Surrendered :
                  input[b].start = out.start /\ input[b].cap = out.cap
            /\ \A b \in 1..NInputs : b \notin Surrendered => input[b].drop_alloc = TRUE)
    /\ [][TupleSegments => SegmentFlags' = SegmentFlags]_vars

\* three inputs, at least two of the output's layout, the middle one surrendered, seen
\* when the run is over
C25_Witness ==
    /\ TupleSegments /\ pc = "done" /\ NInputs = 3
    /\ Cardinality(Matching) >= 2 /\ Surrendered = {2}
    /\ Len(calls) >= 2

\* ------------------------------------------------------------- C26
\* the 2-ary engine holds its two segments, left (the reused one) first
Zip2Segments == api = "zip2" /\ Zip2RunArm # "none" /\ pc # "entry"
OkCalls == Cardinality({ i \in DOMAIN calls : calls[i][2] = "ok" })

\* C26: in every state of the n-ary and of the 2-ary engine the number of output
\* writes is at most the number of rows read from each input; the written slots of
\* the aliased allocation are slots the surrendered input has already been read at,
\* and every slot it has not yet been read at still holds its input element.
C26_ReadBeforeWrite ==
    /\ TupleSegments =>
          /\ "oob_write" \notin ub
          /\ out.ptr = OkCalls
          /\ \A b \in 1..NInputs : out.ptr <= input[b].ptr
          /\ \A s \in Surrendered :
                /\ \A k \in 1..out.ptr : mem[s][k] \in Produced /\ k <= input[s].ptr
                /\ \A k \in (input[s].ptr + 1)..input[s].len : mem[s][k] = Elem(s, k)
    /\ Zip2Segments =>
          /\ \A b \in 1..2 : OkCalls <= input[b].ptr
          /\ \A k \in 1..OkCalls :
                mem[input[1].start][k] \in Produced /\ k <= input[1].ptr
          /\ \A k \in (input[1].ptr + 1)..input[1].len :
                mem[input[1].start][k] = Elem(Zip2Reused, k)

\* the third row is in flight: three slots of the surrendered input read, two written
C26_Witness ==
    /\ TupleSegments /\ pc = "t_call" /\ NInputs = 2 /\ Surrendered = {2}
    /\ out.ptr = 2 /\ input[2].ptr = 3
    /\ mem[2][2] \in Produced /\ mem[2][3] = Elem(2, 3)

\* ------------------------------------------------------------- C27
\* C27: n-ary engine: the transform is invoked on rows 1, 2, 3, ... in this order, the
\* row of the i-th invocation holding every input's element at position i (no element
\* is read twice); the writes follow the same order, the i-th write storing the
\* result of row i in output slot i and leaving the earlier slots as they are.
C27_RowOrder ==
    /\ [](TupleSegments =>
            /\ \A i \in DOMAIN calls : calls[i][1] = EntryRow(i)
            /\ pc = "t_call" =>
                  /\ inflight = EntryRow(Len(calls) + 1)
                  /\ \A b \in 1..NInputs : inflight[b] \notin MovedIn
            /\ \A i \in 1..out.ptr : mem[out.start][i] = OutVal(EntryRow(i)))
    /\ [][TupleSegments =>
            /\ \/ calls' = calls
               \/ \E outcome \in {"ok", "err", "panic"} :
                     calls' = Append(calls, << EntryRow(Len(calls) + 1), outcome >>)
            /\ \/ out'.ptr = out.ptr /\ mem' = mem
               \/ /\ out'.ptr = out.ptr + 1
                  /\ mem' = [mem EXCEPT ![out.start][out.ptr + 1] =
                                            OutVal(EntryRow(out.ptr + 1))]]_vars

\* three rows of three inputs transformed and written
C27_Witness ==
    /\ TupleSegments /\ pc = "t_loop" /\ NInputs = 3
    /\ Len(calls) = 3 /\ out.ptr = 3
    /\ calls[3][1] = EntryRow(3) /\ mem[out.start][3] = OutVal(EntryRow(3))

\* ------------------------------------------------------------- C28
TransformPanicked == calls # << >> /\ calls[Len(calls)][2] = "panic"

\* everything the engine's destructor has to do after the rows read so far
AllCleanupPerformed ==
    /\ \A b \in 1..NInputs : \A j \in (input[b].ptr + 1)..vecs[b].len :
          DropCount(Elem(b, j)) = 1
    /\ \A b \in 1..NInputs : (HasAlloc(b) /\ b \notin Surrendered) => freed[b] = 1
    /\ should_free =>
          /\ \A i \in 1..out.ptr : DropCount(mem[out.start][i]) = 1
          /\ out.cap > 0 => freed[out.start] = 1

\* the run is over and exactly one destructor panicked, in the tail of an input when
\* the process was aborted
OneTailPanic ==
    /\ dtorPanicked
    /\ \/ pc = "done"
       \/ /\ pc = "abort" /\ TransformPanicked
          /\ dropLog # << >> /\ dropLog[Len(dropLog)] \in InputElems

\* C28 as stated: if dropping the tail of one input panics during drop_rest, on the
\* failure path (transform error or panic) or on the success path, the tail-drop of
\* every other input, the freeing of every non-surrendered input allocation and, when
\* should_free is set, the drop of the written outputs and of the output allocation
\* are all still performed.
C28_CleanupAlwaysPerformed ==
    (TupleSegments /\ OneTailPanic) => AllCleanupPerformed

\* C28 (amended): the same, provided the destructor's panic is the first panic of the
\* call (success path, or failure by a transform error) and no second destructor
\* panics; a destructor that panics while the transform's panic is unwinding, or
\* after another destructor has panicked, aborts the process.
C28_ScopedCleanup ==
    /\ (TupleSegments /\ dtorPanicked /\ pc = "done") =>
          ~TransformPanicked /\ AllCleanupPerformed /\ result = <<"panic">>
    /\ (TupleSegments /\ dtorPanicked /\ TransformPanicked) => pc = "abort"

\* a transform error at the second row of three inputs, then one destructor panic:
\* the call ends with every tail dropped, two buffers freed and the output released
C28_Witness ==
    /\ TupleSegments /\ dtorPanicked /\ pc = "done" /\ should_free
    /\ NInputs = 3 /\ Len(calls) = 2 /\ out.ptr = 1
    /\ \A b \in 1..NInputs : vecs[b].len = 3 /\ DropCount(Elem(b, 3)) = 1
    /\ \A b \in 1..NInputs : freed[b] = 1

\* ------------------------------------------------------------- C29
\* C29: n-ary engine: remaining_length (min_len) stays within 0..initial_length and
\* every row takes it down by exactly one, no other step changes it; a run whose
\* transform never fails ends after exactly initial_length invocations, a run whose
\* transform fails leaves the loop at that row, which is its last invocation; the
\* transform is invoked at most initial_length times; and every run terminates.
C29_Progress ==
    /\ [](TupleSegments =>
            /\ min_len \in 0..init_len
            /\ Len(calls) <= init_len
            /\ Len(calls) = init_len - min_len - (IF pc = "t_call" THEN 1 ELSE 0)
            /\ \A i \in DOMAIN calls : calls[i][2] # "ok" => i = Len(calls)
            /\ pc \in {"t_loop", "t_call"} => ~TransformFailed
            /\ (pc = "done" /\ ~TransformFailed) => Len(calls) = init_len /\ min_len = 0)
    /\ [][TupleSegments =>
            \/ min_len' = min_len /\ calls' = calls
            \/ min_len' = min_len /\ pc = "t_call" /\ Len(calls') = Len(calls) + 1
            \/ min_len' = min_len - 1 /\ pc = "t_loop" /\ pc' = "t_call" /\ calls' = calls]_vars
    /\ <>(pc \in {"done", "abort"})

\* a run over three rows that ended without a failure
C29_Witness ==
    /\ TupleSegments /\ pc = "done" /\ ~TransformFailed
    /\ init_len = 3 /\ Len(calls) = 3 /\ min_len = 0 /\ NInputs >= 2



\* ------------------------------------------------------------- C30
\* C30: n-ary engine, in every state: the output's write cursor lies between its start
\* and start + capacity; the initialized output elements are exactly the
\* write_cursor - start slots from the start; their number never exceeds
\* initial_length, which is at most the surrendered input's length and capacity.
C30_OutputBounds ==
    TupleSegments =>
        /\ "oob_write" \notin ub
        /\ out.ptr >= 0 /\ out.ptr <= out.cap
        /\ out.cap = Len(mem[out.start])
        /\ { k \in DOMAIN mem[out.start] : mem[out.start][k] \in Produced } = 1..out.ptr
        /\ out.ptr <= init_len
        /\ \A s \in Surrendered :
              /\ out.start = s /\ out.cap = vecs[s].cap
              /\ init_len <= vecs[s].len /\ vecs[s].len <= vecs[s].cap

\* the cursor at the end of a full buffer: three rows written into a surrendered
\* input of length and capacity three, another input being longer in capacity
C30_Witness ==
    /\ TupleSegments /\ pc = "t_loop" /\ NInputs >= 2
    /\ out.ptr = 3 /\ out.cap = 3 /\ init_len = 3
    /\ \E b \in 1..NInputs : vecs[b].cap = 4

\* ------------------------------------------------------------- C31
\* the n-ary or the 2-ary engine on its reuse path
EngineReuse == TupleSegments \/ Zip2Segments

\* C31: n-ary and 2-ary engine: whenever the drop guard runs after a failure at least
\* one row has been started, so its output count initial_length - remaining_length - 1
\* is never negative; when the transform fails on the first row the guard drops no
\* output element, every input element past the first row has been dropped exactly
\* once (the first row was moved into the transform), and every allocation has been
\* freed exactly once.
C31_FirstRowFailure ==
    /\ (TupleSegments /\ pc = "t_drop" /\ should_free) => init_len - min_len >= 1
    /\ (Zip2Segments /\ pc = "z_drop") => init_len - min_len >= 1
    /\ (EngineReuse /\ pc = "done" /\ ~dtorPanicked /\ TransformFailed /\ Len(calls) = 1) =>
          /\ init_len - min_len - 1 = 0
          /\ Produced = {}
          /\ \A k \in DOMAIN dropLog : dropLog[k] \in InputElems
          /\ \A b \in 1..NInputs : \A j \in 1..vecs[b].len :
                DropCount(Elem(b, j)) = (IF j = 1 THEN 0 ELSE 1)
          /\ \A b \in 1..NInputs : HasAlloc(b) => freed[b] = 1
          /\ ub = {}

\* the transform panics on the first row of three inputs of three elements
C31_Witness ==
    /\ TupleSegments /\ pc = "done" /\ ~dtorPanicked /\ NInputs = 3
    /\ Len(calls) = 1 /\ calls[1][2] = "panic"
    /\ \A b \in 1..NInputs : vecs[b].len = 3 /\ freed[b] = 1
    /\ Len(dropLog) = 6

\* ------------------------------------------------------------- C32
\* C32: n-ary try_zip_with, for every tuple of inputs and every output type V:
\* check_pick::<V>() is true iff at least one input's layout equals V's; whenever it is
\* true pick::<V>() returns Some, so the unreachable_unchecked branch is never reached
\* and the call runs the engine; whenever it is false the call takes the fallback.
C32_CheckPickImpliesPick ==
    api = "tuple" =>
        /\ TupleCheckPick(vecs, 1, layoutV) <=> (\E b \in 1..NInputs : vecs[b].layout = layoutV)
        /\ TupleCheckPick(vecs, 1, layoutV) =>
              /\ TuplePickOutput(IntoData(vecs), layoutV) # << >>
              /\ pc \in {"entry", "t_loop", "t_call", "t_drop", "cleanup", "done", "abort"}
        /\ ~TupleCheckPick(vecs, 1, layoutV) =>
              pc \in {"entry", "fb_loop", "fb_call", "cleanup", "done", "abort"}
        /\ "unreachable" \notin ub

\* only the last of three inputs has the output's layout: pick returned Some and the
\* engine is running over that input's buffer
C32_Witness ==
    /\ api = "tuple" /\ NInputs = 3 /\ Matching = {3}
    /\ pc = "t_call" /\ out.start = 3 /\ Surrendered = {3}

\* ------------------------------------------------------------- C33
\* C33: 2-ary try_zip_with: the transform's i-th call is f(self[i], other[i]) on every
\* path, also when other's buffer is reused and the engine holds the two inputs as
\* (left, right) = (other, self) and reads the row in that order.
C33_ArgumentOrder ==
    api = "zip2" =>
        /\ \A i \in DOMAIN calls :
              calls[i][1][1] = Elem(1, i) /\ calls[i][1][2] = Elem(2, i)
        /\ (Zip2Segments /\ pc = "z_call") =>
              /\ inflight = << Elem(input[1].start, Len(calls) + 1),
                               Elem(input[2].start, Len(calls) + 1) >>
              /\ UserRow(inflight) = << Elem(1, Len(calls) + 1), Elem(2, Len(calls) + 1) >>

\* other's buffer is the reused one; two calls have been made
C33_Witness ==
    /\ Zip2Segments /\ Zip2RunArm = "right" /\ input[1].start = 2
    /\ Len(calls) = 2 /\ calls[2][1] = << Elem(1, 2), Elem(2, 2) >>

\* ------------------------------------------------------------- C34
\* what drop_rest does on segment b when the engine's destructor runs now
DropRestOf(b) == VecDropRest(input[b], init_len - min_len)
TailSlice(b) == <<"drop_slice", b, input[b].ptr, vecs[b].len - (init_len - min_len)>>

\* C34: n-ary engine: drop_rest on the surrendered input drops its remaining elements
\* and does not free the allocation; on every other input it drops the remaining
\* elements and frees that input's allocation, once.  When the call is over the
\* surrendered allocation is the returned buffer's and not freed (success), or has
\* been freed once, as the last step of the cleanup, through the output (failure).
C34_SurrenderedNeverFrees ==
    TupleSegments =>
        /\ \A b \in 1..NInputs :
              DropRestOf(b) = (IF b \in Surrendered
                               THEN << TailSlice(b) >>
                               ELSE << TailSlice(b), <<"free", b, vecs[b].cap>> >>)
        /\ \A s \in Surrendered :
              /\ (freed[s] >= 1 /\ should_free) => (freed[s] = 1 /\ todo = << >>)
              /\ (pc = "done" /\ should_free /\ HasAlloc(s)) => freed[s] = 1
              /\ (pc = "done" /\ ~should_free /\ ~panicking) =>
                    freed[s] = 0 /\ result[1] = "Ok" /\ result[2].buf = s
        /\ pc = "done" =>
              /\ \A b \in 1..NInputs : \A j \in (input[b].ptr + 1)..vecs[b].len :
                    DropCount(Elem(b, j)) = 1
              /\ \A b \in 1..NInputs : (b \notin Surrendered /\ HasAlloc(b)) => freed[b] = 1

\* success over two inputs: the surrendered first input had an unread element, which
\* was dropped, and its buffer went to the caller unfreed; the other buffer was freed
C34_Witness ==
    /\ TupleSegments /\ pc = "done" /\ result[1] = "Ok" /\ NInputs = 2
    /\ Surrendered = {1} /\ vecs[1].len = 3 /\ init_len = 2
    /\ DropCount(Elem(1, 3)) = 1 /\ freed[1] = 0 /\ freed[2] = 1

\* ------------------------------------------------------------- C35
\* the values in the cells of buffer b
CellsOf(b) == { mem[b][k] : k \in DOMAIN mem[b] }
\* the destructor calls made by the step being taken
NewDrops == { dropLog'[k] : k \in (Len(dropLog) + 1)..Len(dropLog') }

\* C35: n-ary engine: once the allocation backing the output has been freed, every
\* unread element of the surrendered input (which lives in it) and every written
\* output has already been dropped; and no step runs a destructor on an element
\* that lies in an allocation freed before that step.
C35_NoUseAfterFree ==
    /\ [](TupleSegments =>
            /\ "use_after_free" \notin ub
            /\ (should_free /\ freed[out.start] >= 1) =>
                  /\ \A s \in Surrendered : \A j \in (input[s].ptr + 1)..vecs[s].len :
                        DropCount(Elem(s, j)) = 1
                  /\ \A i \in 1..out.ptr : DropCount(mem[out.start][i]) = 1)
    /\ [][TupleSegments =>
            \A b \in 1..NInputs : freed[b] >= 1 => NewDrops \cap CellsOf(b) = {}]_vars

\* failure at the second row: the surrendered input's unread third element and the
\* first row's output were dropped, and then the shared allocation was freed
C35_Witness ==
    /\ TupleSegments /\ should_free /\ pc = "cleanup" /\ todo = << >>
    /\ NInputs >= 2 /\ Len(calls) = 2
    /\ \E s \in Surrendered :
          vecs[s].len = 3 /\ DropCount(Elem(s, 3)) = 1 /\ freed[s] = 1
    /\ DropCount(OutVal(EntryRow(1))) = 1

\* ------------------------------------------------------------- C36
\* a call of the 2-ary method on (self, other), or of the n-ary engine on (self, (other,))
TwoInputs == api \in {"zip2", "tuple"} /\ NInputs = 2
\* the input whose buffer the run writes into (0: none, the collecting path)
RunReuses ==
    IF api = "tuple" THEN (IF Surrendered = {} THEN 0 ELSE CHOOSE s \in Surrendered : TRUE)
    ELSE IF Zip2RunArm = "none" THEN 0 ELSE input[1].start

\* C36: the 2-ary try_zip_with on (self, other) and the n-ary try_zip_with on
\* (self, (other,)) take the same reuse decision for the same inputs (self on a
\* capacity tie) and each run follows it; runs that finish, with the same inputs and
\* transform outcomes, return the same Ok/Err with the same length and elements in
\* the same buffer, and drop and free the same elements and allocations: both match
\* one description that does not depend on which of the two was called.  (A destructor
\* panic on the success path is left to C37: there the built Vec is a local of the
\* 2-ary method and the return value of the n-ary one.)
C36_Zip2EqualsTuple ==
    TwoInputs =>
        /\ TupleDecision(vecs) = Zip2Decision(vecs)
        /\ pc # "entry" => RunReuses = Zip2Decision(vecs)
        /\ (pc = "done" /\ ~dtorPanicked) =>
              /\ SameObservable
              /\ result[1] = "Ok" =>
                    /\ result[2].buf = Zip2Decision(vecs)
                    /\ Zip2Decision(vecs) > 0 => result[2].cap = vecs[Zip2Decision(vecs)].cap
        /\ (pc = "done" /\ (~dtorPanicked \/ TransformFailed)) =>
              /\ \A e \in InputElems : DropCount(e) = (IF e \in MovedIn THEN 0 ELSE 1)
              /\ \A v \in Produced :
                    (IF v \in ReturnedCells THEN 1 ELSE 0) + DropCount(v) = 1
              /\ \A b \in 1..NInputs :
                    HasAlloc(b) =>
                       freed[b] = (IF result[1] = "Ok" /\ result[2].buf = b THEN 0 ELSE 1)
              /\ ub = {}

\* the n-ary engine on two inputs of the output's layout and equal capacity, the
\* second one longer: self's buffer is returned, as the 2-ary method decides
C36_Witness ==
    /\ TwoInputs /\ api = "tuple" /\ pc = "done" /\ result[1] = "Ok"
    /\ Matching = {1, 2} /\ vecs[1].cap = vecs[2].cap /\ vecs[1].len < vecs[2].len
    /\ Zip2Decision(vecs) = 1 /\ result[2].buf = 1 /\ result[2].len = 2

\* ------------------------------------------------------------- C37
\* the 2-ary engine wrote every row and a destructor of an excess element panicked;
\* the call is over (a second panic would have aborted the process)
Zip2SuccessDtorPanic ==
    Zip2Segments /\ pc = "done" /\ dtorPanicked /\ ~TransformFailed

\* C37: 2-ary zip, all rows written, the drop of one excess element panics: the
\* output vector built before the cleanup is dropped exactly once (its min-length
\* elements each dropped once, the reused allocation freed once), every excess element
\* of both inputs is still dropped once, the other allocation is freed once, nothing
\* is dropped twice, and the panic reaches the caller.
C37_Zip2SuccessPanic ==
    Zip2SuccessDtorPanic =>
        /\ result = <<"panic">>
        /\ Len(calls) = init_len
        /\ \A i \in 1..init_len :
              /\ mem[input[1].start][i] = OutVal(EntryRow(i))
              /\ DropCount(OutVal(EntryRow(i))) = 1
        /\ HasAlloc(input[1].start) => freed[input[1].start] = 1
        /\ HasAlloc(input[2].start) => freed[input[2].start] = 1
        /\ \A b \in 1..2 : \A j \in 1..vecs[b].len :
              DropCount(Elem(b, j)) = (IF j <= init_len THEN 0 ELSE 1)
        /\ \A k \in DOMAIN dropLog : DropCount(dropLog[k]) = 1
        /\ ub = {}

\* one row written, the right input had two excess elements and one of their
\* destructors panicked
C37_Witness ==
    /\ Zip2SuccessDtorPanic /\ init_len = 1
    /\ vecs[input[1].start].len = 1 /\ vecs[input[2].start].len = 3
    /\ DropCount(OutVal(EntryRow(1))) = 1
    /\ freed[1] = 1 /\ freed[2] = 1

\* ------------------------------------------------------------- C38
\* the UninitBox destructor calls recorded so far (by the caller's drop, or by the
\* unwinding of a layout-mismatch panic in init / init_with)
UninitBoxDrops ==
    { i \in DOMAIN ops :
        \/ ops[i].op = "drop_uninit"
        \/ ops[i].op \in {"init", "init_with"} /\ ops[i].outcome = "layout_panic" }

\* C38: dropping an UninitBox calls dealloc only for a pointer the allocator returned
\* for the same layout; a box of a zero-sized layout (dangling pointer, nothing
\* allocated) is never passed to dealloc.
C38_DeallocOnlyAllocated ==
    /\ ub \cap {"dealloc_unallocated", "dealloc_layout", "double_free"} = {}
    /\ \A i \in UninitBoxDrops :
          ops[i].layout[1] = 0 => freed[ops[i].ptr] = 0

\* an UninitBox of a zero-sized layout was created by from_layout and dropped: its
\* destructor passed the dangling pointer to dealloc
C38_Witness ==
    /\ pc = "done" /\ api = "new" /\ Len(ops) = 2
    /\ ops[1].op = "from_layout" /\ ops[1].layout[1] = 0 /\ ops[1].ptr = Dangling
    /\ ops[2].op = "drop_uninit"
    /\ "dealloc_unallocated" \in ub /\ freed[Dangling] = 1

\* ------------------------------------------------------------- C39
\* the init / init_with calls made on an UninitBox that holds an allocation
InitCallsOnAlloc ==
    { i \in DOMAIN ops : ops[i].op \in {"init", "init_with"} /\ ops[i].layout[1] # 0 }

\* C39: on every path of init and init_with (success, layout-mismatch panic, panic of
\* the init_with initializer) the allocation is afterwards owned by the returned Box,
\* or has been freed exactly once.
C39_NeverLeaks ==
    \A i \in InitCallsOnAlloc :
        \/ /\ tbox # << >> /\ tbox[1].ptr = ops[i].ptr
           /\ heap # << >> /\ freed[ops[i].ptr] = 0
        \/ heap = << >> /\ freed[ops[i].ptr] = 1

\* the initializer passed to init_with panicked: the call has been unwound, no Box
\* exists, and the block is still allocated
C39_Witness ==
    /\ pc = "done" /\ result = <<"panic">>
    /\ \E i \in InitCallsOnAlloc : ops[i].op = "init_with" /\ ops[i].outcome = "panic"
    /\ tbox = << >> /\ ubox = << >> /\ heap # << >> /\ freed = [b \in 0..1 |-> 0]

====
